---- MODULE Spec2Model ----
(***************************************************************************)
(* effect-playwright: a typed effectful adapter over the Playwright        *)
(* browser-automation engine.  The module models                           *)
(*   - the error taxonomy (wrapError) and the async-invocation helper      *)
(*     (useHelper) together with the Effect runtime primitives they are    *)
(*     built from (Effect.tryPromise, Effect.mapError, fiber interruption),*)
(*   - the entry point (launch, launchScoped, connectCDP), the scope that  *)
(*     owns finalizers, and the engine's ownership tree                    *)
(*     browser process > connection handle > context > page,               *)
(*   - the event streams of pages and contexts (Stream.asyncPush over the  *)
(*     engine's on/once/off listener registry),                            *)
(*   - host functions exposed into a page (exposeFunction, exposeEffect),  *)
(*     and the locators made by page.locator.                              *)
(* Ten specifications share the module: SpecUse, SpecWrap, Spec,          *)
(* SpecTree, SpecStream, SpecLazy, SpecExpose, SpecLocator, SpecResults    *)
(* and SpecDom.                                                            *)
(***************************************************************************)
EXTENDS Integers, Sequences, FiniteSets, TLC

\* ---------------------------------------------------------------- bounds
\* number of use(f) executions followed in SpecUse
MaxOps == 2
\* length of the log of wrapError calls in SpecWrap
MaxWrapCalls == 2
\* number of browser processes the engine can be asked to launch
MaxBrowsers == 1
\* number of browser contexts
MaxContexts == 2
\* number of pages
MaxPages == 2
\* number of calls in-page script makes to exposed host functions
MaxCalls == 3
\* number of locators constructed in SpecLocator
MaxLocators == 2
\* number of event names eventStream is called with in SpecLazy
MaxStreams == 1
\* number of result-returning operations called in SpecResults
MaxResults == 2
\* number of operations run on locators in SpecDom
MaxLocOps == 2

OpIds == 1..MaxOps
\* the capability objects use(f) is run on
Caps == {"page", "keyboard"}
\* success values, shaped like the causes so that both fit one exit type
Values == { [cls |-> "Value", name |-> "title"], [cls |-> "Value", name |-> "content"] }

\* ------------------------------------------------- causes and exceptions
\* The JavaScript classes a rejection cause can have, with their prototype
\* parent.  "String" stands for a thrown primitive (no prototype chain).
\* "CustomTimeoutError" is a subclass of the engine's TimeoutError.
Classes ==
  {"TimeoutError", "CustomTimeoutError", "TargetClosedError", "Error", "String"}

ParentClass(cls) ==
  CASE cls = "CustomTimeoutError" -> "TimeoutError"
    [] cls = "TimeoutError" -> "Error"
    [] cls = "TargetClosedError" -> "Error"
    [] cls = "UnknownException" -> "Error"
    [] cls = "Error" -> "Object"
    [] OTHER -> "none"

\* JavaScript's `x instanceof K`: walk the prototype chain of x's class.
RECURSIVE IsSubclass(_, _)
IsSubclass(cls, k) ==
  IF cls = k THEN TRUE
  ELSE IF ParentClass(cls) = "none" THEN FALSE
  ELSE IsSubclass(ParentClass(cls), k)

InstanceOf(x, k) == IsSubclass(x.cls, k)

\* The raw causes the engine (or a callback) can reject or throw with.  The
\* fourth one is a look-alike: a plain Error whose name is "TimeoutError".
RawCauses ==
  { [cls |-> "TimeoutError", name |-> "TimeoutError"],
    [cls |-> "CustomTimeoutError", name |-> "CustomTimeoutError"],
    [cls |-> "TargetClosedError", name |-> "Error"],
    [cls |-> "Error", name |-> "TimeoutError"],
    [cls |-> "Error", name |-> "Error"],
    [cls |-> "String", name |-> "none"] }

\* Effect's Cause.UnknownException: keeps the original error in `error`.
UnknownException(e) ==
  [cls |-> "UnknownException", name |-> "UnknownException", error |-> e]

AllCauses == RawCauses \cup { UnknownException(r) : r \in RawCauses }

TargetClosed == [cls |-> "TargetClosedError", name |-> "Error"]

\* ------------------------------------------------------ error taxonomy
PlaywrightError(reason, cause) ==
  [_tag |-> "PlaywrightError", reason |-> reason, cause |-> cause]

\* mutant: classifies by the error's name instead of its class
wrapErrorByName(error) ==
  IF error.name = "TimeoutError"
  THEN PlaywrightError("Timeout", error)
  ELSE PlaywrightError("Unknown", error)

wrapError(error) ==
  IF InstanceOf(error, "TimeoutError")
  THEN PlaywrightError("Timeout", error)
  ELSE PlaywrightError("Unknown", error)

\* ------------------------------------------------------------- exits
Success(v) == [_tag |-> "Success", value |-> v]
Fail(e) == [_tag |-> "Failure", error |-> e]
Die(d) == [_tag |-> "Die", defect |-> d]
Interrupted == [_tag |-> "Interrupt"]
NoExit == [_tag |-> "None"]

\* What running a promise-returning callback can do: resolve with a value,
\* reject with a cause, or throw the cause synchronously before any promise
\* exists.
Resolve(v) == [settle |-> "resolve", value |-> v]
Reject(r) == [settle |-> "reject", value |-> r]
Throw(r) == [settle |-> "throw", value |-> r]
NoCallback == [settle |-> "none"]

Callbacks ==
  { Resolve(v) : v \in Values } \cup { Reject(r) : r \in RawCauses }
    \cup { Throw(r) : r \in RawCauses }

\* mutant: only the promise is watched, an exception thrown before a
\* promise exists escapes as a defect
tryPromiseThrowDies(outcome) ==
  IF outcome.settle = "resolve"
  THEN Success(outcome.value)
  ELSE IF outcome.settle = "throw"
  THEN Die(outcome.value)
  ELSE Fail(UnknownException(outcome.value))

\* Effect.tryPromise(evaluate): no catcher, so a rejection (or a synchronous
\* throw of evaluate) fails with UnknownException(cause).
tryPromise(outcome) ==
  IF outcome.settle = "resolve"
  THEN Success(outcome.value)
  ELSE Fail(UnknownException(outcome.value))

\* mutant: tryPromise without the catcher, the error mapped afterwards
tryPromiseThenMap(outcome) ==
  IF outcome.settle = "resolve"
  THEN Success(outcome.value)
  ELSE Fail(PlaywrightError("Unknown", UnknownException(outcome.value)))

\* Effect.tryPromise({ try, catch: wrapError }): the catcher maps the cause
\* itself.
tryPromiseCatch(outcome) ==
  IF outcome.settle = "resolve"
  THEN Success(outcome.value)
  ELSE Fail(wrapError(outcome.value))

\* Effect.mapError(wrapError)
mapError(exit) ==
  IF exit._tag = "Failure" THEN Fail(wrapError(exit.error)) ELSE exit

\* mutant: Effect.promise instead of Effect.tryPromise, a rejection is a defect
useHelperDie(outcome) ==
  IF outcome.settle = "resolve"
  THEN Success(outcome.value)
  ELSE Die(outcome.value)

\* useHelper(api)(userFunction), given what userFunction(api) does
useHelper(outcome) == mapError(tryPromise(outcome))

VARIABLES
  \* SpecUse: executions of use(f)
  useApi,      \* the capability object f was invoked on ("none": not invoked)
  useCb,       \* the callback f
  useEngine,   \* the engine-side operation: idle, pending, resolved, rejected
  useFiber,    \* the awaiting fiber: idle, awaiting, done, interrupted
  useExit,     \* the exit of the effect
  useInvoked,  \* the number of times f was called on the capability object
  capEffects,  \* per capability, the side effects engine operations applied
  \* SpecWrap: the calls of wrapError
  wrapLog,
  \* Spec, SpecTree: the entry point, the scope and the ownership tree
  lOpts,        \* per browser, the options launch was called with
  lScoped,      \* per browser, whether launchScoped (TRUE) or launch made it
  lEngine,      \* per browser, the engine's launch: idle, pending, resolved, rejected
  lFiber,       \* per browser, the launching fiber: idle, awaiting, returned, failed, interrupted
  lExit,        \* per browser, the exit of the launch effect
  procAlive,    \* per browser, whether its process runs
  cdp,          \* per browser, the connectCDP handle to it: none, connected, closed
  closeCalls,   \* per browser, who has invoked close on a handle to it
  releaseCalls, \* per browser, the close invocations made by scope finalizers
  scopeState,   \* the enclosing scope: open, closing, closed
  scopeExit,    \* the exit path of the scoped program: none, normal, failure, interrupt
  finalizers,   \* the finalizers registered in the scope, oldest first
  cdpScoped,    \* per browser, whether its CDP handle came from connectCDPScoped
  ctxOwner,     \* per context, the browser handle that owns it
  ctxOpen,      \* per context, whether it is open
  pageCtx,      \* per page, the context that owns it (0: no such page)
  pageOpen,     \* per page, whether it is open
  lastOp,       \* the last asynchronous operation run on a page or a derived handle
  probe,        \* the last browser.newPage + page.evaluate run on a browser handle
  \* SpecStream: one owner (a page or a context) and its event streams
  ownerKind,    \* page or context
  streams,      \* the event names eventStream has been called with
  ownerClosed,  \* whether the owner has emitted its close event
  listeners,    \* the owner's listener registry, in registration order
  log,          \* the event names the owner has emitted, in emission order
  subState,     \* per subscription: idle, active, done
  subEvent,     \* per subscription, the event name of its stream
  subMode,      \* per subscription, its consumer: all (runs to the end) or head
  subEnd,       \* per subscription, why it stopped: ended, early, interrupted
  regAt,        \* per subscription, the length of log when it registered
  stopAt,       \* per subscription, the length of log when it stopped
  finished,     \* per subscription, the finished flag of its emit
  buffer,       \* per subscription, the buffer of its emit
  running,      \* per subscription, the running flag of its emit (flush scheduled)
  queue,        \* per subscription, the queue between emit and the consumer
  delivered,    \* per subscription, the elements its consumer received
  constructed,  \* per subscription, the elements Stream.map has made
  \* SpecExpose: host functions exposed into one page
  ambient,      \* the runtime (execution context) the host program runs under
  alive,        \* per runtime, whether the resources behind its services are held
  ref,          \* per runtime, the value of the Ref its context provides
  exposed,      \* per name, the registration: its kind and captured runtime
  callCount,    \* number of calls in-page script has made
  lastCall,     \* the last call from in-page script and what came of it
  \* SpecLocator: the locators constructed with page.locator
  locatorCalls, \* the calls of page.locator and what came of them
  \* SpecResults: operations that hand a result of the engine to the caller
  resultCalls,  \* the calls made, what the engine answered, what came back
  \* SpecDom: the documents the locators are resolved against
  dom,          \* per page, the node its document has for the selector
  domQueries,   \* number of times the engine has resolved a selector
  locOps        \* the operations run on locators and what came of them

useVars == <<useApi, useCb, useEngine, useFiber, useExit, useInvoked, capEffects>>
launchVars == <<lOpts, lScoped, lEngine, lFiber, lExit>>
scopeVars == <<scopeState, scopeExit, finalizers, releaseCalls, cdpScoped>>
treeVars == <<ctxOwner, ctxOpen, pageCtx, pageOpen>>
lifeVars ==
  <<launchVars, procAlive, cdp, closeCalls, scopeVars, treeVars, lastOp, probe>>
emitVars == <<finished, buffer, running, queue>>
subVars ==
  <<subState, subEvent, subMode, subEnd, regAt, stopAt, delivered, constructed>>
streamVars ==
  <<ownerKind, streams, ownerClosed, listeners, log, subVars, emitVars>>
domVars == <<dom, domQueries, locOps>>
syncVars == <<locatorCalls, resultCalls, domVars>>
exposeVars == <<ambient, alive, ref, exposed, callCount, lastCall, syncVars>>
vars == <<useVars, wrapLog, lifeVars, streamVars, exposeVars>>

\* number of event occurrences the owner emits
MaxOcc == 3

\* the runs of event streams on the owner: two, so that runs overlap
Subs == {1, 2}

\* no stream has been run on the owner
RunsIdle ==
  /\ ownerClosed = FALSE
  /\ listeners = <<>>
  /\ log = <<>>
  /\ subState = [s \in Subs |-> "idle"]
  /\ subEvent = [s \in Subs |-> "none"]
  /\ subMode = [s \in Subs |-> "none"]
  /\ subEnd = [s \in Subs |-> "none"]
  /\ regAt = [s \in Subs |-> 0]
  /\ stopAt = [s \in Subs |-> 0]
  /\ finished = [s \in Subs |-> FALSE]
  /\ buffer = [s \in Subs |-> <<>>]
  /\ running = [s \in Subs |-> FALSE]
  /\ queue = [s \in Subs |-> <<>>]
  /\ delivered = [s \in Subs |-> <<>>]
  /\ constructed = [s \in Subs |-> <<>>]

\* eventStream has not been called and no stream has been run
StreamIdle ==
  /\ RunsIdle
  /\ streams = {}

\* no use(f) has been run
UseIdle ==
  /\ useApi = [o \in OpIds |-> "none"]
  /\ useCb = [o \in OpIds |-> NoCallback]
  /\ useEngine = [o \in OpIds |-> "idle"]
  /\ useFiber = [o \in OpIds |-> "idle"]
  /\ useExit = [o \in OpIds |-> NoExit]
  /\ useInvoked = [o \in OpIds |-> 0]
  /\ capEffects = [c \in Caps |-> 0]

\* ------------------------------------- exposeFunction and exposeEffect
\* the runtimes (execution contexts) the host program can run under
Runtimes == {1, 2}
\* the names host functions are exposed under
Names == {"a", "b"}
\* the arguments in-page script passes to an exposed function
Args == {1, 2}
\* where the in-page call is made: in the script of a page.evaluate of the
\* host program, which awaits and returns it, or in the page's own script
Origins == {"evaluate", "script"}

NoReg == [kind |-> "none", runtime |-> 0]
NoCall ==
  [name |-> "none", origin |-> "none", arg |-> 0, ranUnder |-> 0,
   ambient |-> 0, satisfiable |-> TRUE, hostExit |-> NoExit,
   page |-> NoCallback, host |-> NoExit]

\* nothing is exposed and in-page script has made no call
ExposeIdle ==
  /\ ambient = 1
  /\ alive = [r \in Runtimes |-> TRUE]
  /\ ref = [r \in Runtimes |-> 0]
  /\ exposed = [n \in Names |-> NoReg]
  /\ callCount = 0
  /\ lastCall = NoCall
  /\ locatorCalls = <<>>
  /\ resultCalls = <<>>
  /\ dom = [g \in 1..MaxPages |-> "n1"]
  /\ domQueries = 0
  /\ locOps = <<>>

\* what the host effect fails with once the resources behind the services
\* of its context are released
HostError == [cls |-> "Error", name |-> "Error"]

\* The host effect of the tests, Ref.updateAndGet(ref, (n) => n + inc), run
\* once under runtime r: the Ref is the one r's context provides.  With the
\* resources behind r's services released the effect fails or dies.
HostExits(r, inc) ==
  IF alive[r]
  THEN { Success(ref[r] + inc) }
  ELSE { Fail(HostError), Die(HostError) }

\* The argument of Ref.updateAndGet in the callback handed to the engine:
\* exposeFunction's callback passes the page's arguments to effectFn,
\* exposeEffect's callback takes none and runs the one effect.
Increment(kind, arg) == IF kind = "function" THEN arg ELSE 1

\* Effect's FiberFailure: the error Runtime.runPromise rejects with
FiberFailure(exit) ==
  [cls |-> "FiberFailure", name |-> "(FiberFailure) Error", cause |-> exit]

\* Runtime.runPromise(r)(effect), given the exit of the effect under r
runPromise(exit) ==
  IF exit._tag = "Success"
  THEN Resolve(exit.value)
  ELSE Reject(FiberFailure(exit))

\* The engine's binding channel carries a result to the page as a tagged
\* value and an error as its message, from which the page makes an Error.
toWire(v) == [n |-> v]
fromWire(w) == w.n
PageError == [cls |-> "Error", name |-> "Error"]

\* what the promise of the in-page caller settles with
bindingResult(settled) ==
  IF settled.settle = "resolve"
  THEN Resolve(fromWire(toWire(settled.value)))
  ELSE Reject(PageError)

\* What the host program observes of the call: the exit of its
\* page.evaluate when the call was made in its script, nothing otherwise.
hostSide(origin, pageResult) ==
  IF origin = "evaluate" THEN useHelper(pageResult) ELSE NoExit

\* page.exposeFunction(name, effectFn) runs: Effect.runtime captures the
\* runtime of the running fiber, the engine registers the callback.
ExposeFunction(name) ==
  /\ exposed[name] = NoReg
  /\ exposed' = [exposed EXCEPT ![name] = [kind |-> "function", runtime |-> ambient]]
  /\ UNCHANGED <<ambient, alive, ref, callCount, lastCall, syncVars, useVars, wrapLog,
                 lifeVars, streamVars>>

\* page.exposeEffect(name, effect) runs
ExposeEffect(name) ==
  /\ exposed[name] = NoReg
  /\ exposed' = [exposed EXCEPT ![name] = [kind |-> "effect", runtime |-> ambient]]
  /\ UNCHANGED <<ambient, alive, ref, callCount, lastCall, syncVars, useVars, wrapLog,
                 lifeVars, streamVars>>

\* the host program goes on under another context (Effect.provide)
Provide(r) ==
  /\ r # ambient
  /\ ambient' = r
  /\ UNCHANGED <<alive, ref, exposed, callCount, lastCall, syncVars, useVars, wrapLog,
                 lifeVars, streamVars>>

\* the scope behind the services of runtime r closes
ReleaseContext(r) ==
  /\ alive[r]
  /\ alive' = [alive EXCEPT ![r] = FALSE]
  /\ UNCHANGED <<ambient, ref, exposed, callCount, lastCall, syncVars, useVars, wrapLog,
                 lifeVars, streamVars>>

\* mutant: the callback runs the host effect under the runtime of the
\* moment of the call
CallAmbient(name, origin, arg) ==
  /\ exposed[name] # NoReg
  /\ callCount < MaxCalls
  /\ LET r == ambient
         inc == Increment(exposed[name].kind, arg)
     IN \E exit \in HostExits(r, inc) :
          LET pageResult == bindingResult(runPromise(exit))
          IN /\ ref' = IF exit._tag = "Success"
                       THEN [ref EXCEPT ![r] = @ + inc]
                       ELSE ref
             /\ lastCall' =
                  [name |-> name, origin |-> origin, arg |-> arg,
                   ranUnder |-> r, ambient |-> ambient,
                   satisfiable |-> alive[r], hostExit |-> exit,
                   page |-> pageResult, host |-> hostSide(origin, pageResult)]
  /\ callCount' = callCount + 1
  /\ UNCHANGED <<ambient, alive, exposed, syncVars, useVars, wrapLog, lifeVars,
                 streamVars>>

\* In-page script calls window[name](arg): the engine invokes the
\* registered callback, which runs the host effect with the runPromise of
\* the captured runtime and hands the promise back to the engine.
Call(name, origin, arg) ==
  /\ exposed[name] # NoReg
  /\ callCount < MaxCalls
  /\ LET r == exposed[name].runtime
         inc == Increment(exposed[name].kind, arg)
     IN \E exit \in HostExits(r, inc) :
          LET pageResult == bindingResult(runPromise(exit))
          IN /\ ref' = IF exit._tag = "Success"
                       THEN [ref EXCEPT ![r] = @ + inc]
                       ELSE ref
             /\ lastCall' =
                  [name |-> name, origin |-> origin, arg |-> arg,
                   ranUnder |-> r, ambient |-> ambient,
                   satisfiable |-> alive[r], hostExit |-> exit,
                   page |-> pageResult, host |-> hostSide(origin, pageResult)]
  /\ callCount' = callCount + 1
  /\ UNCHANGED <<ambient, alive, exposed, syncVars, useVars, wrapLog, lifeVars,
                 streamVars>>

\* ----------------------------------------------------------- page.locator
\* the frames of the pages: each page has its main frame and a child frame
FrameIds == [page : 1..MaxPages, frame : {"main", "child"}]
mainFrame(g) == [page |-> g, frame |-> "main"]
NoLocator == [page |-> 0, frame |-> "none"]
\* the frame of the locator passed as options.has or options.hasNot
InnerLocators == FrameIds \cup {NoLocator}

Return(v) == [settle |-> "return", value |-> v]
SameFrameError == [cls |-> "Error", name |-> "Error"]

\* The engine's page.locator(selector, { has, hasNot }): the locator is
\* scoped to the page's main frame, and its constructor throws when an
\* inner locator belongs to another frame.
EngineLocator(frame, has, hasNot) ==
  IF \/ has # NoLocator /\ has # frame
     \/ hasNot # NoLocator /\ hasNot # frame
  THEN Throw(SameFrameError)
  ELSE Return([frame |-> frame, has |-> has, hasNot |-> hasNot])

PlaywrightLocatorMake(raw) == [made |-> "PlaywrightLocator", raw |-> raw]

\* mutant: the wrapper catches the engine's exception and returns a locator
\* built without the inner locators
locatorLenient(g, has, hasNot) ==
  LET raw == EngineLocator(mainFrame(g), has, hasNot)
  IN IF raw.settle = "throw"
     THEN Return(PlaywrightLocatorMake(
            EngineLocator(mainFrame(g), NoLocator, NoLocator).value))
     ELSE Return(PlaywrightLocatorMake(raw.value))

\* the wrapper's locator: a synchronous call, no effect around it
locator(g, has, hasNot) ==
  LET raw == EngineLocator(mainFrame(g), has, hasNot)
  IN IF raw.settle = "throw" THEN raw ELSE Return(PlaywrightLocatorMake(raw.value))

\* A synchronous call made in the body of an effect (Effect.gen,
\* Effect.sync): an exception it throws is a defect of the effect.
effectSync(outcome) ==
  IF outcome.settle = "throw" THEN Die(outcome.value) ELSE Success(outcome.value)

\* Effect.catchAll(handler): recovers failures, leaves defects alone
Recovered == [made |-> "Recovered", raw |-> NoLocator]
catchAll(exit) ==
  IF exit._tag = "Failure" THEN Success(Recovered) ELSE exit

\* A program calls page.locator(selector, { has, hasNot }) on page g in the
\* body of an effect that it runs under Effect.catchAll.
LocatorCall(g, has, hasNot) ==
  /\ Len(locatorCalls) < MaxLocators
  /\ locatorCalls' =
       Append(locatorCalls,
              [page |-> g, has |-> has, hasNot |-> hasNot,
               outcome |-> locator(g, has, hasNot),
               exit |-> catchAll(effectSync(locator(g, has, hasNot)))])
  /\ UNCHANGED <<ambient, alive, ref, exposed, callCount, lastCall, resultCalls,
                 domVars, useVars, wrapLog, lifeVars, streamVars>>

\* ------------------------------------------------ operations on locators
\* The nodes a document can have for the selector of the locators; NoNode
\* when no node matches.
Nodes == {"n1", "n2"}
NoNode == "none"
\* the operations of a locator that read the node it resolves to
LocatorOps == {"textContent", "getAttribute"}
\* what an operation reads from node n
NodeValue(n) == [cls |-> "Value", name |-> n]

\* In-page script changes the document of page g: the node matching the
\* selector is replaced by another one, or removed.
DomChange(g, n) ==
  /\ n # dom[g]
  /\ dom' = [dom EXCEPT ![g] = n]
  /\ UNCHANGED <<ambient, alive, ref, exposed, callCount, lastCall, locatorCalls,
                 resultCalls, domQueries, locOps, useVars, wrapLog, lifeVars,
                 streamVars>>

\* mutant: the locator keeps the node its first operation resolved to
resolveCached(i) ==
  IF \E k \in 1..Len(locOps) : locOps[k].loc = i /\ locOps[k].node # NoNode
  THEN locOps[CHOOSE k \in 1..Len(locOps) :
                /\ locOps[k].loc = i /\ locOps[k].node # NoNode
                /\ \A j \in 1..(k - 1) :
                     ~(locOps[j].loc = i /\ locOps[j].node # NoNode)].node
  ELSE dom[locatorCalls[i].page]

\* The node an operation on the i-th locator acts on: the locator holds the
\* selector and its frame, and the engine resolves them against the
\* document as it is when the operation runs.
resolve(i) == dom[locatorCalls[i].page]

\* the engine's operation on the resolved node: with no matching node it
\* waits for one and runs into its timeout
EngineLocatorOp(n) ==
  IF n = NoNode
  THEN Reject([cls |-> "TimeoutError", name |-> "TimeoutError"])
  ELSE Resolve(NodeValue(n))

\* A program runs the effect of operation op of the i-th locator:
\* use((l) => l.op(...)).
LocatorOp(i, op) ==
  /\ i \in 1..Len(locatorCalls)
  /\ locatorCalls[i].outcome.settle = "return"
  /\ Len(locOps) < MaxLocOps
  /\ locOps' =
       Append(locOps,
              [loc |-> i, op |-> op, node |-> resolve(i),
               exit |-> useHelper(EngineLocatorOp(resolve(i)))])
  /\ domQueries' = domQueries + 1
  /\ UNCHANGED <<ambient, alive, ref, exposed, callCount, lastCall, locatorCalls,
                 resultCalls, dom, useVars, wrapLog, lifeVars, streamVars>>

\* ------------------------------------------- entry point, scope and tree
Browsers == 1..MaxBrowsers
Contexts == 1..MaxContexts
Pages == 1..MaxPages
\* the two kinds of browser handle: launched, or attached with connectCDP
Vias == {"launched", "cdp"}

\* launch options as far as the engine's answer depends on them
LaunchOptions == {"default", "invalidPath", "timeout1"}

\* what browserType.launch(options) does
LaunchOutcome(options) ==
  CASE options = "invalidPath" -> Reject([cls |-> "Error", name |-> "Error"])
    [] options = "timeout1" ->
         Reject([cls |-> "TimeoutError", name |-> "TimeoutError"])
    [] OTHER -> Resolve([cls |-> "Value", name |-> "browser"])

NoOwner == [b |-> 0, via |-> "none"]
Owner(b, via) == [b |-> b, via |-> via]
NoOp == [target |-> 0, handle |-> "none", op |-> "none", crossing |-> FALSE,
         post |-> "none", ownerClosed |-> FALSE, exit |-> NoExit,
         viaUse |-> NoExit]

NoProbe == [b |-> 0, via |-> "none", closed |-> {}, exit |-> NoExit]

LifeIdle ==
  /\ lOpts = [b \in Browsers |-> "none"]
  /\ lScoped = [b \in Browsers |-> FALSE]
  /\ lEngine = [b \in Browsers |-> "idle"]
  /\ lFiber = [b \in Browsers |-> "idle"]
  /\ lExit = [b \in Browsers |-> NoExit]
  /\ procAlive = [b \in Browsers |-> FALSE]
  /\ cdp = [b \in Browsers |-> "none"]
  /\ closeCalls = [b \in Browsers |-> {}]
  /\ releaseCalls = [b \in Browsers |-> 0]
  /\ scopeState = "open"
  /\ scopeExit = "none"
  /\ finalizers = <<>>
  /\ cdpScoped = [b \in Browsers |-> FALSE]
  /\ ctxOwner = [c \in Contexts |-> NoOwner]
  /\ ctxOpen = [c \in Contexts |-> FALSE]
  /\ pageCtx = [g \in Pages |-> 0]
  /\ pageOpen = [g \in Pages |-> FALSE]
  /\ lastOp = NoOp
  /\ probe = NoProbe

\* browser.isConnected on a handle
isConnected(b, via) ==
  IF via = "launched" THEN procAlive[b] ELSE cdp[b] \in {"connected", "owning"}

\* Whether the engine's close of the handle takes the browser process down:
\* so for a handle from browserType.launch, not for one from
\* chromium.connectOverCDP, whose close drops the connection.
OwnsProcess(b, via) == via = "launched" \/ cdp[b] = "owning"

\* whether the program holds the handle
Held(b, via) ==
  IF via = "launched" THEN lFiber[b] = "returned" ELSE cdp[b] # "none"

\* the contexts that go down when close is invoked on handle (b, via): the
\* launched handle takes the process and with it everything on it, a CDP
\* handle only what was made through that connection
ContextsUnder(b, via) ==
  { c \in Contexts :
      /\ ctxOwner[c].b = b
      /\ OwnsProcess(b, via) \/ ctxOwner[c].via = "cdp" }

\* launch / launchScoped: browserType.launch(options) is called and the
\* fiber awaits it.  launchScoped runs in the scope, which must be open.
LaunchStart(b, scoped, options) ==
  /\ lFiber[b] = "idle"
  /\ \A b2 \in Browsers : b2 < b => lFiber[b2] # "idle"
  /\ scoped => scopeState = "open"
  /\ lOpts' = [lOpts EXCEPT ![b] = options]
  /\ lScoped' = [lScoped EXCEPT ![b] = scoped]
  /\ lEngine' = [lEngine EXCEPT ![b] = "pending"]
  /\ lFiber' = [lFiber EXCEPT ![b] = "awaiting"]
  /\ UNCHANGED <<lExit, procAlive, cdp, closeCalls, scopeVars, treeVars,
                 lastOp, probe, useVars, wrapLog, exposeVars, streamVars>>

\* The engine finishes launching: the process runs, or the launch is
\* rejected.  Nothing here looks at the fiber.
EngineLaunchSettle(b) ==
  /\ lEngine[b] = "pending"
  /\ IF LaunchOutcome(lOpts[b]).settle = "resolve"
     THEN /\ lEngine' = [lEngine EXCEPT ![b] = "resolved"]
          /\ procAlive' = [procAlive EXCEPT ![b] = TRUE]
     ELSE /\ lEngine' = [lEngine EXCEPT ![b] = "rejected"]
          /\ UNCHANGED procAlive
  /\ UNCHANGED <<lOpts, lScoped, lFiber, lExit, cdp, closeCalls, scopeVars,
                 treeVars, lastOp, probe, useVars, wrapLog, exposeVars, streamVars>>

\* mutant: launch registers the finalizer too
LaunchResumeAlwaysFinalizer(b) ==
  /\ lFiber[b] = "awaiting"
  /\ lEngine[b] \in {"resolved", "rejected"}
  /\ lExit' = [lExit EXCEPT ![b] = tryPromiseCatch(LaunchOutcome(lOpts[b]))]
  /\ lFiber' = [lFiber EXCEPT
                  ![b] = IF lEngine[b] = "resolved" THEN "returned" ELSE "failed"]
  /\ finalizers' = IF lEngine[b] = "resolved"
                   THEN Append(finalizers, Owner(b, "launched"))
                   ELSE finalizers
  /\ UNCHANGED <<lOpts, lScoped, lEngine, procAlive, cdp, closeCalls,
                 scopeState, scopeExit, releaseCalls, cdpScoped, treeVars,
                 lastOp, probe, useVars, wrapLog, exposeVars, streamVars>>

\* mutant: launchScoped registers no finalizer
LaunchResumeNoFinalizer(b) ==
  /\ lFiber[b] = "awaiting"
  /\ lEngine[b] \in {"resolved", "rejected"}
  /\ lExit' = [lExit EXCEPT ![b] = tryPromiseCatch(LaunchOutcome(lOpts[b]))]
  /\ lFiber' = [lFiber EXCEPT
                  ![b] = IF lEngine[b] = "resolved" THEN "returned" ELSE "failed"]
  /\ UNCHANGED <<lOpts, lScoped, lEngine, procAlive, cdp, closeCalls,
                 scopeVars, treeVars, lastOp, probe, useVars, wrapLog, exposeVars, streamVars>>

\* The settled launch resumes the fiber: a rejection fails the effect with
\* wrapError(cause); otherwise the browser is wrapped and, in launchScoped,
\* the finalizer is added to the scope before the handle is returned.
LaunchResume(b) ==
  /\ lFiber[b] = "awaiting"
  /\ lEngine[b] \in {"resolved", "rejected"}
  /\ lExit' = [lExit EXCEPT ![b] = tryPromiseCatch(LaunchOutcome(lOpts[b]))]
  /\ lFiber' = [lFiber EXCEPT
                  ![b] = IF lEngine[b] = "resolved" THEN "returned" ELSE "failed"]
  /\ finalizers' = IF lEngine[b] = "resolved" /\ lScoped[b]
                   THEN Append(finalizers, Owner(b, "launched"))
                   ELSE finalizers
  /\ UNCHANGED <<lOpts, lScoped, lEngine, procAlive, cdp, closeCalls,
                 scopeState, scopeExit, releaseCalls, cdpScoped, treeVars,
                 lastOp, probe, useVars, wrapLog, exposeVars, streamVars>>

\* The launching fiber is interrupted while it awaits the launch (before or
\* after the promise settled, but before the fiber ran on).  The engine's
\* launch is not told.
LaunchInterrupt(b) ==
  /\ lFiber[b] = "awaiting"
  /\ lFiber' = [lFiber EXCEPT ![b] = "interrupted"]
  /\ lExit' = [lExit EXCEPT ![b] = Interrupted]
  /\ UNCHANGED <<lOpts, lScoped, lEngine, procAlive, cdp, closeCalls,
                 scopeVars, treeVars, lastOp, probe, useVars, wrapLog, exposeVars, streamVars>>

\* mutant: connectCDP hands out a handle that owns the browser process, as
\* one from browserType.launch does
ConnectCDPOwning(b) ==
  /\ procAlive[b]
  /\ cdp[b] = "none"
  /\ cdp' = [cdp EXCEPT ![b] = "owning"]
  /\ UNCHANGED <<launchVars, procAlive, closeCalls, scopeVars, treeVars,
                 lastOp, probe, useVars, wrapLog, exposeVars, streamVars>>

\* connectCDP: chromium.connectOverCDP to a running browser process
ConnectCDP(b) ==
  /\ procAlive[b]
  /\ cdp[b] = "none"
  /\ cdp' = [cdp EXCEPT ![b] = "connected"]
  /\ UNCHANGED <<launchVars, procAlive, closeCalls, scopeVars, treeVars,
                 lastOp, probe, useVars, wrapLog, exposeVars, streamVars>>

\* mutant: connectCDPScoped registers no finalizer
ConnectCDPScopedNoFinalizer(b) ==
  /\ procAlive[b]
  /\ cdp[b] = "none"
  /\ scopeState = "open"
  /\ cdp' = [cdp EXCEPT ![b] = "connected"]
  /\ cdpScoped' = [cdpScoped EXCEPT ![b] = TRUE]
  /\ UNCHANGED <<launchVars, procAlive, closeCalls, scopeState, scopeExit,
                 finalizers, releaseCalls, treeVars, lastOp, probe, useVars,
                 wrapLog, exposeVars, streamVars>>

\* connectCDPScoped: connectCDP in the scope, which must be open, with a
\* finalizer that closes the connection
ConnectCDPScoped(b) ==
  /\ procAlive[b]
  /\ cdp[b] = "none"
  /\ scopeState = "open"
  /\ cdp' = [cdp EXCEPT ![b] = "connected"]
  /\ cdpScoped' = [cdpScoped EXCEPT ![b] = TRUE]
  /\ finalizers' = Append(finalizers, Owner(b, "cdp"))
  /\ UNCHANGED <<launchVars, procAlive, closeCalls, scopeState, scopeExit,
                 releaseCalls, treeVars, lastOp, probe, useVars, wrapLog, exposeVars,
                 streamVars>>

\* The engine's browser.close() on handle (b, via), as a state change.
EngineBrowserClose(b, via) ==
  /\ procAlive' = [procAlive EXCEPT ![b] = IF OwnsProcess(b, via) THEN FALSE ELSE @]
  /\ cdp' = [cdp EXCEPT ![b] = IF @ = "none" THEN "none" ELSE "closed"]
  /\ ctxOpen' = [c \in Contexts |->
                   IF c \in ContextsUnder(b, via) THEN FALSE ELSE ctxOpen[c]]
  /\ pageOpen' = [g \in Pages |->
                    IF pageCtx[g] \in ContextsUnder(b, via)
                    THEN FALSE
                    ELSE pageOpen[g]]

\* what close resolves with
VoidValue == [cls |-> "Value", name |-> "undefined"]

\* close run on a resource that is closed already, as the operation
\* followed: the engine's close resolves (a closed target is not an error
\* for close) and use gives that on
CloseAgain(target, handle) ==
  [target |-> target, handle |-> handle, op |-> "close", crossing |-> TRUE,
   post |-> "none", ownerClosed |-> TRUE,
   exit |-> useHelper(Resolve(VoidValue)),
   viaUse |-> useHelper(Resolve(VoidValue))]

\* browser.close run by the caller on a handle it holds, connected or not
BrowserClose(b, via) ==
  /\ Held(b, via)
  /\ isConnected(b, via) \/ lastOp = NoOp
  /\ EngineBrowserClose(b, via)
  /\ closeCalls' = [closeCalls EXCEPT ![b] = @ \cup {via}]
  /\ lastOp' = IF isConnected(b, via) THEN lastOp ELSE CloseAgain(b, "browser")
  /\ UNCHANGED <<launchVars, scopeVars, ctxOwner, pageCtx, probe, useVars,
                 wrapLog, exposeVars, streamVars>>

\* The scoped program ends on one of its exit paths and the scope starts to
\* close.  A program that ends normally or fails has no launchScoped still
\* running; an interruption also interrupts the launches it awaits.
ScopeBeginClose(path) ==
  /\ scopeState = "open"
  /\ path \in {"normal", "failure"} =>
       \A b \in Browsers : lScoped[b] => lFiber[b] # "awaiting"
  /\ scopeState' = "closing"
  /\ scopeExit' = path
  /\ lFiber' = [b \in Browsers |->
                  IF lScoped[b] /\ lFiber[b] = "awaiting"
                  THEN "interrupted"
                  ELSE lFiber[b]]
  /\ lExit' = [b \in Browsers |->
                 IF lScoped[b] /\ lFiber[b] = "awaiting"
                 THEN Interrupted
                 ELSE lExit[b]]
  /\ UNCHANGED <<lOpts, lScoped, lEngine, procAlive, cdp, closeCalls,
                 finalizers, releaseCalls, cdpScoped, treeVars, lastOp, probe,
                 useVars, wrapLog, exposeVars, streamVars>>

\* What the engine's browser.close() can do when a finalizer invokes it:
\* resolve, or, on a launched handle, reject.  Closing a connectCDP handle
\* only drops the local connection.
CloseFailure == [cls |-> "Error", name |-> "Error"]
CloseOutcomes(via) ==
  IF via = "launched"
  THEN { Resolve(VoidValue), Reject(CloseFailure) }
  ELSE { Resolve(VoidValue) }

\* mutant: the finalizer turns the failure of close into a defect
orDie(exit) ==
  IF exit._tag = "Failure" THEN Die(exit.error) ELSE exit

\* Effect.ignore: success and failure both become success with no value
ignore(exit) ==
  IF exit._tag \in {"Success", "Failure"} THEN Success(VoidValue) ELSE exit

\* The exit path of the scoped program after a finalizer has run with the
\* given exit: a finalizer that does not succeed adds its defect.
AfterFinalizer(path, exit) ==
  IF exit._tag = "Success" THEN path ELSE "finalizerDefect"

\* The closing scope runs its newest finalizer: browser.close on the handle
\* it was registered for, with its failure ignored.  A close that the
\* engine rejects has closed nothing.
RunFinalizer ==
  /\ scopeState = "closing"
  /\ finalizers # <<>>
  /\ LET h == finalizers[Len(finalizers)]
     IN \E outcome \in CloseOutcomes(h.via) :
          /\ IF outcome.settle = "resolve"
             THEN EngineBrowserClose(h.b, h.via)
             ELSE UNCHANGED <<procAlive, cdp, ctxOpen, pageOpen>>
          /\ releaseCalls' = IF h.via = "launched"
                             THEN [releaseCalls EXCEPT ![h.b] = @ + 1]
                             ELSE releaseCalls
          /\ closeCalls' = [closeCalls EXCEPT
                              ![h.b] = @ \cup {IF h.via = "cdp"
                                               THEN "releaseCdp"
                                               ELSE IF outcome.settle = "resolve"
                                               THEN "release"
                                               ELSE "releaseFailed"}]
          /\ scopeExit' = AfterFinalizer(scopeExit, ignore(useHelper(outcome)))
  /\ finalizers' = SubSeq(finalizers, 1, Len(finalizers) - 1)
  /\ UNCHANGED <<launchVars, scopeState, cdpScoped, ctxOwner, pageCtx, lastOp,
                 probe, useVars, wrapLog, exposeVars, streamVars>>

\* All finalizers have run: the scope is closed.
ScopeEndClose ==
  /\ scopeState = "closing"
  /\ finalizers = <<>>
  /\ scopeState' = "closed"
  /\ UNCHANGED <<launchVars, procAlive, cdp, closeCalls, scopeExit,
                 finalizers, releaseCalls, cdpScoped, treeVars, lastOp, probe,
                 useVars, wrapLog, exposeVars, streamVars>>

\* ------------------------------------------------ contexts, pages, handles
\* The asynchronous operations followed on a page handle and on handles
\* derived from it.  `crossing` tells whether the callback given to `use`
\* calls a promise-returning engine method (page.title()) or only reads what
\* the engine object holds locally (Promise.resolve(p.frames()),
\* request.postDataJSON()).
PageOps ==
  { [handle |-> "page", op |-> "title", crossing |-> TRUE, post |-> "none"],
    [handle |-> "page", op |-> "evaluate", crossing |-> TRUE, post |-> "none"],
    [handle |-> "page", op |-> "goBack", crossing |-> TRUE, post |-> "optionResponse"],
    [handle |-> "page", op |-> "frames", crossing |-> FALSE, post |-> "none"],
    [handle |-> "keyboard", op |-> "press", crossing |-> TRUE, post |-> "none"],
    [handle |-> "request", op |-> "allHeaders", crossing |-> TRUE, post |-> "none"],
    [handle |-> "request", op |-> "postDataJSON", crossing |-> FALSE, post |-> "none"] }

OpValue == [cls |-> "Value", name |-> "result"]
\* what page.goBack resolves with: a Response, or null when it cannot go back
ResponseValue == [cls |-> "Value", name |-> "Response"]
NullValue == [cls |-> "Value", name |-> "null"]
\* the empty string: a non-null value that is falsy in JavaScript
EmptyString == [cls |-> "Value", name |-> ""]

\* Option.fromNullable, then Option.map(PlaywrightResponse.make)
None == [_tag |-> "None"]
Some(v) == [_tag |-> "Some", value |-> v]
\* mutant: a truthiness test (v ? some(v) : none()) instead of v == null
fromNullableTruthy(v) ==
  IF v \in {NullValue, VoidValue, EmptyString} THEN None ELSE Some(v)
\* Option.fromNullable: null and undefined become None, all else Some
fromNullable(v) == IF v \in {NullValue, VoidValue} THEN None ELSE Some(v)
PlaywrightResponseMake(raw) == [made |-> "PlaywrightResponse.make", raw |-> raw]
OptionMap(opt, post) ==
  IF opt._tag = "Some" /\ post = "optionResponse"
  THEN Some(PlaywrightResponseMake(opt.value))
  ELSE opt

\* what a dedicated method does with the value use(...) succeeded with
PostOf(post, v) ==
  IF post = "optionResponse" THEN OptionMap(fromNullable(v), post) ELSE v

\* mutant: the dedicated method has its own tryPromise with catch: wrapError
DedicatedOwnCatch(o, outcome) ==
  IF outcome.settle = "resolve"
  THEN Success(PostOf(o.post, outcome.value))
  ELSE Fail(wrapError(outcome.value))

\* the dedicated method of operation o: use((p) => p.op(...)), piped through
\* Effect.map where the method converts its result
Dedicated(o, outcome) ==
  IF useHelper(outcome)._tag = "Success"
  THEN Success(PostOf(o.post, useHelper(outcome).value))
  ELSE useHelper(outcome)

\* What the engine can answer to operation o on page g: on a closed target a
\* call into the engine is rejected with TargetClosedError; local reads
\* resolve; on an open page a call resolves or runs into its timeout.
EngineOpOutcomes(g, o) ==
  IF o.crossing
  THEN IF pageOpen[g]
       THEN (IF o.op = "goBack"
             THEN { Resolve(ResponseValue), Resolve(NullValue) }
             ELSE { Resolve(OpValue) })
            \cup { Reject([cls |-> "TimeoutError", name |-> "TimeoutError"]) }
       ELSE { Reject(TargetClosed) }
  ELSE { Resolve(OpValue) }

\* browser.newContext on a connected handle the program holds
NewContext(c, b, via) ==
  /\ Held(b, via)
  /\ isConnected(b, via)
  /\ ctxOwner[c] = NoOwner
  /\ \A c2 \in Contexts : c2 < c => ctxOwner[c2] # NoOwner
  /\ ctxOwner' = [ctxOwner EXCEPT ![c] = Owner(b, via)]
  /\ ctxOpen' = [ctxOpen EXCEPT ![c] = TRUE]
  /\ UNCHANGED <<launchVars, procAlive, cdp, closeCalls, scopeVars, pageCtx,
                 pageOpen, lastOp, probe, useVars, wrapLog, exposeVars, streamVars>>

\* context.newPage on an open context
NewPage(g, c) ==
  /\ ctxOpen[c]
  /\ pageCtx[g] = 0
  /\ \A g2 \in Pages : g2 < g => pageCtx[g2] # 0
  /\ pageCtx' = [pageCtx EXCEPT ![g] = c]
  /\ pageOpen' = [pageOpen EXCEPT ![g] = TRUE]
  /\ UNCHANGED <<launchVars, procAlive, cdp, closeCalls, scopeVars, ctxOwner,
                 ctxOpen, lastOp, probe, useVars, wrapLog, exposeVars, streamVars>>

\* mutant: close marks the context closed and leaves its pages alone
ContextCloseShallow(c) ==
  /\ ctxOpen[c]
  /\ ctxOpen' = [ctxOpen EXCEPT ![c] = FALSE]
  /\ UNCHANGED <<launchVars, procAlive, cdp, closeCalls, scopeVars, ctxOwner,
                 pageCtx, pageOpen, lastOp, probe, useVars, wrapLog, exposeVars, streamVars>>

\* context.close: use(c => c.close()); the engine closes the context and
\* every page it owns; on a closed context it has nothing left to close
ContextClose(c) ==
  /\ ctxOwner[c] # NoOwner
  /\ ctxOpen[c] \/ lastOp = NoOp
  /\ ctxOpen' = [ctxOpen EXCEPT ![c] = FALSE]
  /\ pageOpen' = [g \in Pages |-> IF pageCtx[g] = c THEN FALSE ELSE pageOpen[g]]
  /\ lastOp' = IF ctxOpen[c] THEN lastOp ELSE CloseAgain(c, "context")
  /\ UNCHANGED <<launchVars, procAlive, cdp, closeCalls, scopeVars, ctxOwner,
                 pageCtx, probe, useVars, wrapLog, exposeVars, streamVars>>

\* mutant: close runs the page's beforeunload handlers, which keep it open
PageCloseBeforeUnload(g) ==
  /\ pageCtx[g] # 0
  /\ pageOpen[g] \/ lastOp = NoOp
  /\ lastOp' = IF pageOpen[g] THEN lastOp ELSE CloseAgain(g, "page")
  /\ UNCHANGED <<launchVars, procAlive, cdp, closeCalls, scopeVars, treeVars,
                 probe, useVars, wrapLog, exposeVars, streamVars>>

\* mutant: the wrapper keeps a closed flag and treats a second close as a
\* usage error
PageCloseStrict(g) ==
  /\ pageCtx[g] # 0
  /\ pageOpen[g] \/ lastOp = NoOp
  /\ pageOpen' = [pageOpen EXCEPT ![g] = FALSE]
  /\ lastOp' = IF pageOpen[g] THEN lastOp
               ELSE [CloseAgain(g, "page") EXCEPT
                       !.exit = Die([cls |-> "Error", name |-> "Error"])]
  /\ UNCHANGED <<launchVars, procAlive, cdp, closeCalls, scopeVars, ctxOwner,
                 ctxOpen, pageCtx, probe, useVars, wrapLog, exposeVars, streamVars>>

\* page.close: use(p => p.close()), on an open page or on a closed one
PageClose(g) ==
  /\ pageCtx[g] # 0
  /\ pageOpen[g] \/ lastOp = NoOp
  /\ pageOpen' = [pageOpen EXCEPT ![g] = FALSE]
  /\ lastOp' = IF pageOpen[g] THEN lastOp ELSE CloseAgain(g, "page")
  /\ UNCHANGED <<launchVars, procAlive, cdp, closeCalls, scopeVars, ctxOwner,
                 ctxOpen, pageCtx, probe, useVars, wrapLog, exposeVars, streamVars>>

\* The engine closes page g by itself (the tab is closed by the user or by
\* a script, or it crashes) and emits the page's close event.
EnginePageClose(g) ==
  /\ pageOpen[g]
  /\ pageOpen' = [pageOpen EXCEPT ![g] = FALSE]
  /\ UNCHANGED <<launchVars, procAlive, cdp, closeCalls, scopeVars, ctxOwner,
                 ctxOpen, pageCtx, lastOp, probe, useVars, wrapLog, exposeVars, streamVars>>

\* page.isClosed: the engine's closed flag of the page
isClosed(g) == ~pageOpen[g]

\* An asynchronous operation other than close is run on page g or on a
\* handle derived from it, with the engine's answer; viaUse is what
\* use((raw) => raw.op(...)) gives for the same answer.  The operations
\* modelled here leave the tree as it is, so following one of them per
\* behaviour reaches every pair of a tree state and an operation.
PageOp(g, o, outcome) ==
  /\ lastOp = NoOp
  /\ pageCtx[g] # 0
  /\ outcome \in EngineOpOutcomes(g, o)
  /\ lastOp' = [target |-> g, handle |-> o.handle, op |-> o.op,
                crossing |-> o.crossing, post |-> o.post,
                ownerClosed |-> ~pageOpen[g],
                exit |-> Dedicated(o, outcome),
                viaUse |-> useHelper(outcome)]
  /\ UNCHANGED <<launchVars, procAlive, cdp, closeCalls, scopeVars, treeVars,
                 probe, useVars, wrapLog, exposeVars, streamVars>>

\* browser.newPage followed by page.evaluate on handle (b, via): two uses
\* of the engine in a row, the page being dropped afterwards.  A handle whose
\* connection is gone rejects the first call.
Probe(b, via) ==
  /\ Held(b, via)
  /\ probe' = [b |-> b, via |-> via, closed |-> closeCalls[b],
               exit |-> IF isConnected(b, via)
                        THEN useHelper(Resolve(OpValue))
                        ELSE useHelper(Reject(TargetClosed))]
  /\ UNCHANGED <<launchVars, procAlive, cdp, closeCalls, scopeVars, treeVars,
                 lastOp, useVars, wrapLog, exposeVars, streamVars>>

\* ------------------------------------------------------------------ Spec
\* The entry point and the scope: nothing is launched yet.
Init ==
  /\ UseIdle
  /\ LifeIdle
  /\ StreamIdle
  /\ ownerKind = "page"
  /\ wrapLog = <<>>
  /\ ExposeIdle

Next ==
  \/ \E b \in Browsers, scoped \in BOOLEAN, options \in LaunchOptions :
       LaunchStart(b, scoped, options)
  \/ \E b \in Browsers : EngineLaunchSettle(b)
  \/ \E b \in Browsers : LaunchResume(b)
  \/ \E b \in Browsers : LaunchInterrupt(b)
  \/ \E b \in Browsers : ConnectCDP(b)
  \/ \E b \in Browsers : ConnectCDPScoped(b)
  \/ \E b \in Browsers, via \in Vias : BrowserClose(b, via)
  \/ \E b \in Browsers, via \in Vias : Probe(b, via)
  \/ \E path \in {"normal", "failure", "interrupt"} : ScopeBeginClose(path)
  \/ RunFinalizer
  \/ ScopeEndClose

Spec == Init /\ [][Next]_vars

\* -------------------------------------------------------------- SpecTree
\* The ownership tree under one browser that launch has returned.
InitTree ==
  /\ UseIdle
  /\ StreamIdle
  /\ ownerKind = "page"
  /\ wrapLog = <<>>
  /\ ExposeIdle
  /\ lOpts = [b \in Browsers |-> IF b = 1 THEN "default" ELSE "none"]
  /\ lScoped = [b \in Browsers |-> FALSE]
  /\ lEngine = [b \in Browsers |-> IF b = 1 THEN "resolved" ELSE "idle"]
  /\ lFiber = [b \in Browsers |-> IF b = 1 THEN "returned" ELSE "idle"]
  /\ lExit = [b \in Browsers |->
                IF b = 1 THEN tryPromiseCatch(LaunchOutcome("default")) ELSE NoExit]
  /\ procAlive = [b \in Browsers |-> b = 1]
  /\ cdp = [b \in Browsers |-> "none"]
  /\ closeCalls = [b \in Browsers |-> {}]
  /\ releaseCalls = [b \in Browsers |-> 0]
  /\ scopeState = "open"
  /\ scopeExit = "none"
  /\ finalizers = <<>>
  /\ cdpScoped = [b \in Browsers |-> FALSE]
  /\ ctxOwner = [c \in Contexts |-> NoOwner]
  /\ ctxOpen = [c \in Contexts |-> FALSE]
  /\ pageCtx = [g \in Pages |-> 0]
  /\ pageOpen = [g \in Pages |-> FALSE]
  /\ lastOp = NoOp
  /\ probe = NoProbe

NextTree ==
  \/ \E b \in Browsers : ConnectCDP(b)
  \/ \E b \in Browsers, via \in Vias : BrowserClose(b, via)
  \/ \E c \in Contexts, b \in Browsers, via \in Vias : NewContext(c, b, via)
  \/ \E g \in Pages, c \in Contexts : NewPage(g, c)
  \/ \E c \in Contexts : ContextClose(c)
  \/ \E g \in Pages : PageClose(g)
  \/ \E g \in Pages : EnginePageClose(g)
  \/ \E g \in Pages, o \in PageOps :
       \E outcome \in EngineOpOutcomes(g, o) : PageOp(g, o, outcome)

SpecTree == InitTree /\ [][NextTree]_vars

\* ------------------------------------------------------------- SpecUse
\* Running use(f): tryPromise calls f(api).  A synchronous throw ends the
\* effect at once; otherwise the engine operation is in flight and the fiber
\* awaits the promise.
UseRun(o, api, f) ==
  /\ useFiber[o] = "idle"
  /\ useApi' = [useApi EXCEPT ![o] = api]
  /\ useCb' = [useCb EXCEPT ![o] = f]
  /\ useInvoked' = [useInvoked EXCEPT ![o] = @ + 1]
  /\ IF f.settle = "throw"
     THEN /\ useFiber' = [useFiber EXCEPT ![o] = "done"]
          /\ useExit' = [useExit EXCEPT ![o] = useHelper(f)]
          /\ UNCHANGED useEngine
     ELSE /\ useFiber' = [useFiber EXCEPT ![o] = "awaiting"]
          /\ useEngine' = [useEngine EXCEPT ![o] = "pending"]
          /\ UNCHANGED useExit
  /\ UNCHANGED <<capEffects, wrapLog, exposeVars, lifeVars, streamVars>>

\* The engine finishes the operation: a resolved operation has had its side
\* effect on the capability.  Nothing here looks at the fiber.
EngineSettle(o) ==
  /\ useEngine[o] = "pending"
  /\ IF useCb[o].settle = "resolve"
     THEN /\ useEngine' = [useEngine EXCEPT ![o] = "resolved"]
          /\ capEffects' = [capEffects EXCEPT ![useApi[o]] = @ + 1]
     ELSE /\ useEngine' = [useEngine EXCEPT ![o] = "rejected"]
          /\ UNCHANGED capEffects
  /\ UNCHANGED <<useApi, useCb, useFiber, useExit, useInvoked, wrapLog,
                 exposeVars, lifeVars, streamVars>>

\* mutant: a rejected operation is invoked once more before the failure
\* is reported
FiberResumeRetry(o) ==
  /\ useFiber[o] = "awaiting"
  /\ useEngine[o] \in {"resolved", "rejected"}
  /\ IF useEngine[o] = "rejected" /\ useInvoked[o] < 2
     THEN /\ useInvoked' = [useInvoked EXCEPT ![o] = @ + 1]
          /\ useEngine' = [useEngine EXCEPT ![o] = "pending"]
          /\ UNCHANGED <<useFiber, useExit>>
     ELSE /\ useFiber' = [useFiber EXCEPT ![o] = "done"]
          /\ useExit' = [useExit EXCEPT ![o] = useHelper(useCb[o])]
          /\ UNCHANGED <<useInvoked, useEngine>>
  /\ UNCHANGED <<useApi, useCb, capEffects, wrapLog, exposeVars, lifeVars,
                 streamVars>>

\* The settled promise resumes the awaiting fiber.
FiberResume(o) ==
  /\ useFiber[o] = "awaiting"
  /\ useEngine[o] \in {"resolved", "rejected"}
  /\ useFiber' = [useFiber EXCEPT ![o] = "done"]
  /\ useExit' = [useExit EXCEPT ![o] = useHelper(useCb[o])]
  /\ UNCHANGED <<useApi, useCb, useEngine, useInvoked, capEffects, wrapLog,
                 exposeVars, lifeVars, streamVars>>

\* mutant: interruption aborts the engine-side operation
InterruptAborting(o) ==
  /\ useFiber[o] = "awaiting"
  /\ useFiber' = [useFiber EXCEPT ![o] = "interrupted"]
  /\ useExit' = [useExit EXCEPT ![o] = Interrupted]
  /\ useEngine' = [useEngine EXCEPT ![o] = "rejected"]
  /\ UNCHANGED <<useApi, useCb, useInvoked, capEffects, wrapLog, exposeVars,
                 lifeVars, streamVars>>

\* The awaiting fiber is interrupted.  The callback was called without an
\* AbortSignal, so the engine operation is not told.
Interrupt(o) ==
  /\ useFiber[o] = "awaiting"
  /\ useFiber' = [useFiber EXCEPT ![o] = "interrupted"]
  /\ useExit' = [useExit EXCEPT ![o] = Interrupted]
  /\ UNCHANGED <<useApi, useCb, useEngine, useInvoked, capEffects, wrapLog,
                 exposeVars, lifeVars, streamVars>>

InitUse ==
  /\ UseIdle
  /\ LifeIdle
  /\ StreamIdle
  /\ ownerKind = "page"
  /\ wrapLog = <<>>
  /\ ExposeIdle

NextUse ==
  \/ \E o \in OpIds, api \in Caps, f \in Callbacks : UseRun(o, api, f)
  \/ \E o \in OpIds : EngineSettle(o)
  \/ \E o \in OpIds : FiberResume(o)
  \/ \E o \in OpIds : Interrupt(o)

SpecUse == InitUse /\ [][NextUse]_vars

\* ------------------------------------------------------------ SpecWrap
WrapCall(c) ==
  /\ Len(wrapLog) < MaxWrapCalls
  /\ wrapLog' = Append(wrapLog, [input |-> c, output |-> wrapError(c)])
  /\ UNCHANGED <<useVars, lifeVars, streamVars, exposeVars>>

InitWrap ==
  /\ UseIdle
  /\ LifeIdle
  /\ StreamIdle
  /\ ownerKind = "page"
  /\ wrapLog = <<>>
  /\ ExposeIdle

NextWrap == \E c \in AllCauses : WrapCall(c)

SpecWrap == InitWrap /\ [][NextWrap]_vars

\* ------------------------------------------------------------ SpecExpose
\* One open page and a host program that exposes functions into it.
InitExpose ==
  /\ UseIdle
  /\ LifeIdle
  /\ StreamIdle
  /\ ownerKind = "page"
  /\ wrapLog = <<>>
  /\ ExposeIdle

NextExpose ==
  \/ \E name \in Names : ExposeFunction(name)
  \/ \E name \in Names : ExposeEffect(name)
  \/ \E r \in Runtimes : Provide(r)
  \/ \E r \in Runtimes : ReleaseContext(r)
  \/ \E name \in Names, origin \in Origins, arg \in Args :
       Call(name, origin, arg)

SpecExpose == InitExpose /\ [][NextExpose]_vars

\* ----------------------------------------------------------- SpecLocator
\* Programs that construct locators on the pages.
InitLocator ==
  /\ UseIdle
  /\ LifeIdle
  /\ StreamIdle
  /\ ownerKind = "page"
  /\ wrapLog = <<>>
  /\ ExposeIdle

NextLocator ==
  \E g \in 1..MaxPages, has \in InnerLocators, hasNot \in InnerLocators :
    LocatorCall(g, has, hasNot)

SpecLocator == InitLocator /\ [][NextLocator]_vars

\* --------------------------------------------------------------- SpecDom
\* Programs that construct locators and run operations on them while
\* in-page script changes the documents.
InitDom ==
  /\ UseIdle
  /\ LifeIdle
  /\ StreamIdle
  /\ ownerKind = "page"
  /\ wrapLog = <<>>
  /\ ExposeIdle

NextDom ==
  \/ \E g \in 1..MaxPages : LocatorCall(g, NoLocator, NoLocator)
  \/ \E g \in 1..MaxPages, n \in Nodes \cup {NoNode} : DomChange(g, n)
  \/ \E i \in 1..MaxLocators, op \in LocatorOps : LocatorOp(i, op)

SpecDom == InitDom /\ [][NextDom]_vars

\* ----------------------------------------------------------- SpecResults
\* Operations of the wrapped handles whose result comes from the engine.
\* The classes of engine object an operation can answer with
EngineObjects ==
  {"Page", "Frame", "Request", "Response", "Worker", "ElementHandle",
   "BrowserContext"}

\* The operations, as the make functions define them.  kind: "plain" is a
\* synchronous function returning a value, "sync" is Effect.sync, "use" goes
\* through the handle's use helper.  type is the class of the engine's
\* non-null answer, nullable tells whether the engine may answer null, conv
\* is what the method does to the answer and make the wrapper constructor
\* it applies.
ResultOps ==
  { [handle |-> "page", op |-> "frame", kind |-> "plain", type |-> "Frame",
     nullable |-> TRUE, conv |-> "fromNullableMake", make |-> "PlaywrightFrame.make"],
    [handle |-> "page", op |-> "goBack", kind |-> "use", type |-> "Response",
     nullable |-> TRUE, conv |-> "fromNullableMake", make |-> "PlaywrightResponse.make"],
    [handle |-> "page", op |-> "goForward", kind |-> "use", type |-> "Response",
     nullable |-> TRUE, conv |-> "fromNullableMake", make |-> "PlaywrightResponse.make"],
    [handle |-> "page", op |-> "context", kind |-> "plain", type |-> "BrowserContext",
     nullable |-> FALSE, conv |-> "make", make |-> "PlaywrightBrowserContext.make"],
    [handle |-> "page", op |-> "addScriptTag", kind |-> "use", type |-> "ElementHandle",
     nullable |-> FALSE, conv |-> "identity", make |-> "none"],
    [handle |-> "page", op |-> "addStyleTag", kind |-> "use", type |-> "ElementHandle",
     nullable |-> FALSE, conv |-> "identity", make |-> "none"],
    [handle |-> "page", op |-> "title", kind |-> "use", type |-> "string",
     nullable |-> FALSE, conv |-> "identity", make |-> "none"],
    [handle |-> "page", op |-> "use", kind |-> "use", type |-> "ElementHandle",
     nullable |-> TRUE, conv |-> "identity", make |-> "none"],
    [handle |-> "request", op |-> "frame", kind |-> "sync", type |-> "Frame",
     nullable |-> FALSE, conv |-> "make", make |-> "PlaywrightFrame.make"],
    [handle |-> "request", op |-> "headerValue", kind |-> "use", type |-> "string",
     nullable |-> TRUE, conv |-> "fromNullable", make |-> "none"],
    [handle |-> "request", op |-> "redirectedFrom", kind |-> "plain", type |-> "Request",
     nullable |-> TRUE, conv |-> "fromNullableMake", make |-> "PlaywrightRequest.make"],
    [handle |-> "request", op |-> "response", kind |-> "use", type |-> "Response",
     nullable |-> TRUE, conv |-> "fromNullableMake", make |-> "PlaywrightResponse.make"],
    [handle |-> "request", op |-> "serviceWorker", kind |-> "plain", type |-> "Worker",
     nullable |-> TRUE, conv |-> "fromNullableMake", make |-> "PlaywrightWorker.make"],
    [handle |-> "response", op |-> "request", kind |-> "plain", type |-> "Request",
     nullable |-> FALSE, conv |-> "make", make |-> "PlaywrightRequest.make"],
    [handle |-> "dialog", op |-> "page", kind |-> "plain", type |-> "Page",
     nullable |-> TRUE, conv |-> "fromNullableMake", make |-> "PlaywrightPage.make"],
    [handle |-> "fileChooser", op |-> "element", kind |-> "plain", type |-> "ElementHandle",
     nullable |-> FALSE, conv |-> "identity", make |-> "none"],
    [handle |-> "fileChooser", op |-> "page", kind |-> "plain", type |-> "Page",
     nullable |-> FALSE, conv |-> "make", make |-> "PlaywrightPage.make"],
    [handle |-> "download", op |-> "page", kind |-> "plain", type |-> "Page",
     nullable |-> FALSE, conv |-> "make", make |-> "PlaywrightPage.make"] }

\* What the engine can answer to operation o: a raw engine object of its
\* class or a string (possibly empty), null where the engine's signature
\* allows it, and a rejection for the calls that go to the browser.
EngineAnswers(o) ==
  (IF o.type \in EngineObjects
   THEN { [cls |-> "Engine", name |-> o.type] }
   ELSE { [cls |-> "Value", name |-> "text"], EmptyString })
    \cup (IF o.nullable THEN { NullValue } ELSE {})
ResultOutcomes(o) ==
  { Resolve(v) : v \in EngineAnswers(o) }
    \cup (IF o.kind = "use"
          THEN { Reject([cls |-> "TimeoutError", name |-> "TimeoutError"]) }
          ELSE {})

\* X.make(raw): the wrapped handle of a raw engine object
WrapperMake(make, raw) == [made |-> make, raw |-> raw]
\* Option.map(X.make)
OptionMapMake(opt, make) ==
  IF opt._tag = "Some" THEN Some(WrapperMake(make, opt.value)) ELSE opt

\* what the method of operation o makes of the engine's answer v
Convert(o, v) ==
  CASE o.conv = "identity" -> v
    [] o.conv = "make" -> WrapperMake(o.make, v)
    [] o.conv = "fromNullable" -> fromNullable(v)
    [] o.conv = "fromNullableMake" -> OptionMapMake(fromNullable(v), o.make)

\* what the caller of operation o receives when the engine settles with
\* outcome: a value, or the exit of the effect the method returns
ResultOf(o, outcome) ==
  CASE o.kind = "plain" -> Return(Convert(o, outcome.value))
    [] o.kind = "sync" -> Success(Convert(o, outcome.value))
    [] o.kind = "use" ->
         IF useHelper(outcome)._tag = "Success"
         THEN Success(Convert(o, useHelper(outcome).value))
         ELSE useHelper(outcome)

\* A program calls operation o and the engine settles it with outcome.
ResultCall(o, outcome) ==
  /\ Len(resultCalls) < MaxResults
  /\ resultCalls' =
       Append(resultCalls,
              [op |-> o, outcome |-> outcome, result |-> ResultOf(o, outcome)])
  /\ UNCHANGED <<ambient, alive, ref, exposed, callCount, lastCall, locatorCalls,
                 domVars, useVars, wrapLog, lifeVars, streamVars>>

InitResults ==
  /\ UseIdle
  /\ LifeIdle
  /\ StreamIdle
  /\ ownerKind = "page"
  /\ wrapLog = <<>>
  /\ ExposeIdle

NextResults ==
  \E o \in ResultOps : \E outcome \in ResultOutcomes(o) : ResultCall(o, outcome)

SpecResults == InitResults /\ [][NextResults]_vars

\* ------------------------------------------------------------ SpecStream
\* One owner (a page or a context), the listener registry of its engine
\* object, and the runs of the streams eventStream(e) returns.
OwnerKinds == {"page", "context"}

\* interface PageEvents: event name |-> type of the raw payload
PageEvents ==
  [close |-> "Page", console |-> "ConsoleMessage", crash |-> "Page",
   dialog |-> "Dialog", domcontentloaded |-> "Page", download |-> "Download",
   filechooser |-> "FileChooser", frameattached |-> "Frame",
   framedetached |-> "Frame", framenavigated |-> "Frame", load |-> "Page",
   pageerror |-> "Error", popup |-> "Page", request |-> "Request",
   requestfailed |-> "Request", requestfinished |-> "Request",
   response |-> "Response", websocket |-> "WebSocket", worker |-> "Worker"]

\* interface BrowserContextEvents
BrowserContextEvents ==
  [backgroundpage |-> "Page", close |-> "BrowserContext",
   console |-> "ConsoleMessage", dialog |-> "Dialog", page |-> "Page",
   request |-> "Request", requestfailed |-> "Request",
   requestfinished |-> "Request", response |-> "Response",
   serviceworker |-> "Worker", weberror |-> "WebError"]

\* const eventMappings of page.ts
eventMappingsPage ==
  [close |-> "PlaywrightPage.make", console |-> "identity",
   crash |-> "PlaywrightPage.make", dialog |-> "PlaywrightDialog.make",
   domcontentloaded |-> "PlaywrightPage.make",
   download |-> "PlaywrightDownload.make",
   filechooser |-> "PlaywrightFileChooser.make",
   frameattached |-> "PlaywrightFrame.make",
   framedetached |-> "PlaywrightFrame.make",
   framenavigated |-> "PlaywrightFrame.make", load |-> "PlaywrightPage.make",
   pageerror |-> "identity", popup |-> "PlaywrightPage.make",
   request |-> "PlaywrightRequest.make",
   requestfailed |-> "PlaywrightRequest.make",
   requestfinished |-> "PlaywrightRequest.make",
   response |-> "PlaywrightResponse.make", websocket |-> "identity",
   worker |-> "PlaywrightWorker.make"]

\* const eventMappings of browser-context.ts
eventMappingsContext ==
  [backgroundpage |-> "PlaywrightPage.make",
   close |-> "PlaywrightBrowserContext.make", console |-> "identity",
   dialog |-> "PlaywrightDialog.make", page |-> "PlaywrightPage.make",
   request |-> "PlaywrightRequest.make",
   requestfailed |-> "PlaywrightRequest.make",
   requestfinished |-> "PlaywrightRequest.make",
   response |-> "PlaywrightResponse.make",
   serviceworker |-> "PlaywrightWorker.make", weberror |-> "identity"]

\* the events the owners of the model emit, among the keys of PageEvents and
\* of BrowserContextEvents
EventNames(kind) ==
  IF kind = "page" THEN {"popup", "console", "close"}
                   ELSE {"page", "close"}

\* the type of the raw payload the engine passes to a listener of event
PayloadType(kind, event) ==
  IF kind = "page" THEN PageEvents[event] ELSE BrowserContextEvents[event]

\* eventMappings[event]: what the stream's element is made of the payload
eventMappings(kind, event) ==
  IF kind = "page" THEN eventMappingsPage[event] ELSE eventMappingsContext[event]

\* the raw payload of the n-th emission, an occurrence of event on the owner
Payload(kind, event, n) == [type |-> PayloadType(kind, event), occ |-> n]

\* consumers: Stream.runForEach / runCollect take all, Stream.runHead one
Modes == {"all", "head"}

\* the emitter's on, once and off; a listener is the emit.single or the
\* emit.end of one run of the stream
on(ls, event, s, fn) ==
  Append(ls, [event |-> event, sub |-> s, fn |-> fn, isOnce |-> FALSE])

once(ls, event, s, fn) ==
  Append(ls, [event |-> event, sub |-> s, fn |-> fn, isOnce |-> TRUE])

off(ls, event, s, fn) ==
  LET idx == { i \in 1..Len(ls) :
                 ls[i].event = event /\ ls[i].sub = s /\ ls[i].fn = fn }
  IN IF idx = {} THEN ls
     ELSE LET k == CHOOSE i \in idx : \A j \in idx : j <= i
          IN SubSeq(ls, 1, k - 1) \o SubSeq(ls, k + 1, Len(ls))

\* the emit of one run (Stream.asyncPush): the closure state of makePush
EmitState(s) ==
  [finished |-> finished[s], buffer |-> buffer[s], running |-> running[s],
   queue |-> queue[s]]

\* flush: hand the buffer to the queue as one array
flush(st) ==
  [st EXCEPT !.running = FALSE,
             !.buffer = <<>>,
             !.queue = IF st.buffer # <<>>
                       THEN Append(@, [tag |-> "items", items |-> st.buffer])
                       ELSE @]

\* emit.single(value): buffer the value and schedule a flush
single(st, value) ==
  IF st.finished THEN st
  ELSE [st EXCEPT !.buffer = Append(@, value), !.running = TRUE]

\* emit.end(): finish, flush, offer the end of the stream
end(st) ==
  IF st.finished THEN st
  ELSE [flush(st) EXCEPT !.finished = TRUE,
                         !.queue = Append(@, [tag |-> "exit", items |-> <<>>])]

\* the emitter calls the listeners of one event in registration order
RECURSIVE ApplyCalls(_, _, _)
ApplyCalls(st, calls, value) ==
  IF calls = <<>> THEN st
  ELSE ApplyCalls(IF Head(calls).fn = "single" THEN single(st, value) ELSE end(st),
                  Tail(calls), value)

\* mutant: eventStream registers the listeners when it is called
EventStreamEager(e) ==
  /\ e \in EventNames(ownerKind) \ streams
  /\ Cardinality(streams) < MaxStreams
  /\ streams' = streams \cup {e}
  /\ listeners' = once(on(listeners, e, 0, "single"), "close", 0, "end")
  /\ UNCHANGED <<ownerKind, ownerClosed, log, subVars, emitVars, useVars,
                 wrapLog, exposeVars, lifeVars>>

\* eventStream(e) is called: it returns the stream, a description that
\* has run nothing yet
EventStream(e) ==
  /\ e \in EventNames(ownerKind) \ streams
  /\ Cardinality(streams) < MaxStreams
  /\ streams' = streams \cup {e}
  /\ UNCHANGED <<ownerKind, ownerClosed, listeners, log, subVars, emitVars,
                 useVars, wrapLog, exposeVars, lifeVars>>

\* mutant: the value listener is registered with once
SubscribeOnce(s, e, mode) ==
  /\ subState[s] = "idle"
  /\ \A t \in Subs : t < s => subState[t] # "idle"
  /\ e \in streams
  /\ listeners' = once(once(listeners, e, s, "single"), "close", s, "end")
  /\ subState' = [subState EXCEPT ![s] = "active"]
  /\ subEvent' = [subEvent EXCEPT ![s] = e]
  /\ subMode' = [subMode EXCEPT ![s] = mode]
  /\ regAt' = [regAt EXCEPT ![s] = Len(log)]
  /\ UNCHANGED <<ownerKind, streams, ownerClosed, log, subEnd, stopAt, delivered,
                 constructed,
                 emitVars, useVars, wrapLog, exposeVars, lifeVars>>

\* mutant: the end listener is registered before the value listener
SubscribeEndFirst(s, e, mode) ==
  /\ subState[s] = "idle"
  /\ \A t \in Subs : t < s => subState[t] # "idle"
  /\ e \in streams
  /\ listeners' = on(once(listeners, "close", s, "end"), e, s, "single")
  /\ subState' = [subState EXCEPT ![s] = "active"]
  /\ subEvent' = [subEvent EXCEPT ![s] = e]
  /\ subMode' = [subMode EXCEPT ![s] = mode]
  /\ regAt' = [regAt EXCEPT ![s] = Len(log)]
  /\ UNCHANGED <<ownerKind, streams, ownerClosed, log, subEnd, stopAt, delivered,
                 constructed,
                 emitVars, useVars, wrapLog, exposeVars, lifeVars>>

\* mutant: only the value listener is registered
SubscribeNoEnd(s, e, mode) ==
  /\ subState[s] = "idle"
  /\ \A t \in Subs : t < s => subState[t] # "idle"
  /\ e \in streams
  /\ listeners' = on(listeners, e, s, "single")
  /\ subState' = [subState EXCEPT ![s] = "active"]
  /\ subEvent' = [subEvent EXCEPT ![s] = e]
  /\ subMode' = [subMode EXCEPT ![s] = mode]
  /\ regAt' = [regAt EXCEPT ![s] = Len(log)]
  /\ UNCHANGED <<ownerKind, streams, ownerClosed, log, subEnd, stopAt, delivered,
                 constructed,
                 emitVars, useVars, wrapLog, exposeVars, lifeVars>>

\* the stream of eventStream(e) is run: the acquire registers the listeners
\* (runs are numbered in the order they start)
Subscribe(s, e, mode) ==
  /\ subState[s] = "idle"
  /\ \A t \in Subs : t < s => subState[t] # "idle"
  /\ e \in streams
  /\ listeners' = once(on(listeners, e, s, "single"), "close", s, "end")
  /\ subState' = [subState EXCEPT ![s] = "active"]
  /\ subEvent' = [subEvent EXCEPT ![s] = e]
  /\ subMode' = [subMode EXCEPT ![s] = mode]
  /\ regAt' = [regAt EXCEPT ![s] = Len(log)]
  /\ UNCHANGED <<ownerKind, streams, ownerClosed, log, subEnd, stopAt, delivered,
                 constructed,
                 emitVars, useVars, wrapLog, exposeVars, lifeVars>>

\* the owner emits one occurrence of e (close: the owner closes)
Emit(e) ==
  /\ Len(log) < MaxOcc
  /\ e \in EventNames(ownerKind)
  /\ LET n == Len(log) + 1
         called == SelectSeq(listeners, LAMBDA l : l.event = e)
         after(s) == ApplyCalls(EmitState(s),
                                SelectSeq(called, LAMBDA l : l.sub = s), n)
     IN /\ log' = Append(log, e)
        /\ listeners' = SelectSeq(listeners, LAMBDA l : ~(l.event = e /\ l.isOnce))
        /\ finished' = [s \in Subs |-> after(s).finished]
        /\ buffer' = [s \in Subs |-> after(s).buffer]
        /\ running' = [s \in Subs |-> after(s).running]
        /\ queue' = [s \in Subs |-> after(s).queue]
  /\ ownerClosed' = (ownerClosed \/ e = "close")
  /\ UNCHANGED <<ownerKind, streams, subVars, useVars, wrapLog, exposeVars, lifeVars>>

\* the scheduled flush of a run's emit; a queue that was shut down takes nothing
Flush(s) ==
  /\ running[s]
  /\ LET st == flush(EmitState(s))
     IN /\ buffer' = [buffer EXCEPT ![s] = st.buffer]
        /\ running' = [running EXCEPT ![s] = st.running]
        /\ queue' = [queue EXCEPT ![s] = IF subState[s] = "done" THEN @ ELSE st.queue]
  /\ UNCHANGED <<ownerKind, streams, ownerClosed, listeners, log, subVars, finished,
                 useVars, wrapLog, exposeVars, lifeVars>>

\* mutant: the release removes the value listener only
ReleaseKeepsEnd(s) ==
  off(listeners, subEvent[s], s, "single")

\* the release of a run: both listeners off
Release(s) ==
  off(off(listeners, subEvent[s], s, "single"), "close", s, "end")

\* the scope of a run closes: release, then the queue is shut down
Stop(s, why) ==
  /\ listeners' = Release(s)
  /\ subState' = [subState EXCEPT ![s] = "done"]
  /\ subEnd' = [subEnd EXCEPT ![s] = why]
  /\ stopAt' = [stopAt EXCEPT ![s] = Len(log)]
  /\ queue' = [queue EXCEPT ![s] = <<>>]

\* mutant: every element of an array wraps the array's last payload
MapItemsLast(s, items) ==
  [i \in 1..Len(items) |->
     [made |-> eventMappings(ownerKind, subEvent[s]), occ |-> items[i],
      raw |-> Payload(ownerKind, subEvent[s], items[Len(items)])]]

\* mutant: the elements are the raw payloads (no Stream.map)
MapItemsRaw(s, items) ==
  [i \in 1..Len(items) |->
     [made |-> "identity", occ |-> items[i],
      raw |-> Payload(ownerKind, subEvent[s], items[i])]]

\* Stream.map(eventMappings[event]) over the items of one array: made names
\* the constructor applied to the raw payload (identity: the payload itself)
MapItems(s, items) ==
  [i \in 1..Len(items) |->
     [made |-> eventMappings(ownerKind, subEvent[s]), occ |-> items[i],
      raw |-> Payload(ownerKind, subEvent[s], items[i])]]

\* popup.opener on a wrapped Page delivered by eventStream("popup"): the
\* engine's opener() is the originating page, or null once that page has
\* closed; the wrapper gives it as an optional wrapped Page
opener(element) ==
  IF element.raw.type = "Page" /\ ownerKind = "page" /\ ~ownerClosed
  THEN Some([made |-> "PlaywrightPage.make", raw |-> "owner"])
  ELSE None

\* the consumer of a run takes the next item of the queue
Take(s) ==
  /\ subState[s] = "active"
  /\ queue[s] # <<>>
  /\ LET item == Head(queue[s])
     IN IF item.tag = "exit"
        THEN /\ Stop(s, "ended")
             /\ UNCHANGED <<delivered, constructed>>
        ELSE IF subMode[s] = "head"
        THEN /\ constructed' = [constructed EXCEPT
                                  ![s] = @ \o MapItems(s, item.items)]
             /\ delivered' = [delivered EXCEPT
                                ![s] = Append(@, MapItems(s, item.items)[1])]
             /\ Stop(s, "early")
        ELSE /\ constructed' = [constructed EXCEPT
                                  ![s] = @ \o MapItems(s, item.items)]
             /\ delivered' = [delivered EXCEPT ![s] = @ \o MapItems(s, item.items)]
             /\ queue' = [queue EXCEPT ![s] = Tail(@)]
             /\ UNCHANGED <<listeners, subState, subEnd, stopAt>>
  /\ UNCHANGED <<ownerKind, streams, ownerClosed, log, subEvent, subMode, regAt,
                 finished, buffer, running, useVars, wrapLog, exposeVars, lifeVars>>

\* the fiber that consumes a run is interrupted
InterruptConsumer(s) ==
  /\ subState[s] = "active"
  /\ Stop(s, "interrupted")
  /\ UNCHANGED <<ownerKind, streams, ownerClosed, log, subEvent, subMode, regAt,
                 delivered, constructed, finished, buffer, running, useVars,
                 wrapLog, exposeVars, lifeVars>>

\* the streams of all event names are at hand, none has been run
InitStream ==
  /\ UseIdle
  /\ LifeIdle
  /\ RunsIdle
  /\ ownerKind \in OwnerKinds
  /\ streams = EventNames(ownerKind)
  /\ wrapLog = <<>>
  /\ ExposeIdle

NextStream ==
  \/ \E s \in Subs, e \in EventNames(ownerKind), mode \in Modes : Subscribe(s, e, mode)
  \/ \E e \in EventNames(ownerKind) : Emit(e)
  \/ \E s \in Subs : Flush(s)
  \/ \E s \in Subs : Take(s)
  \/ \E s \in Subs : InterruptConsumer(s)

SpecStream == InitStream /\ [][NextStream]_vars

\* -------------------------------------------------------------- SpecLazy
\* The same owner from before the first call of eventStream.
InitLazy ==
  /\ UseIdle
  /\ LifeIdle
  /\ StreamIdle
  /\ ownerKind \in OwnerKinds
  /\ wrapLog = <<>>
  /\ ExposeIdle

NextLazy ==
  \/ \E e \in EventNames(ownerKind) : EventStream(e)
  \/ NextStream

SpecLazy == InitLazy /\ [][NextLazy]_vars

\* ---------------------------------------------------------- claims: Spec
\* browser b was acquired by launchScoped: the handle was returned to the
\* scoped program
Acquired(b) == lScoped[b] /\ lFiber[b] = "returned"

\* C3: for a browser acquired by launchScoped, the scope's release invokes
\* close never before the scope closes, never more than once, and exactly
\* once by the time the scope has closed, whatever the exit path.
C3_ScopedCloseExactlyOnce ==
  \A b \in Browsers :
    Acquired(b) =>
      /\ releaseCalls[b] <= 1
      /\ scopeState = "open" => releaseCalls[b] = 0
      /\ scopeState = "closed" =>
           /\ scopeExit \in {"normal", "failure", "interrupt"}
           /\ releaseCalls[b] = 1
           /\ "releaseFailed" \in closeCalls[b] \/ ~procAlive[b]

\* C3 witness: the scoped program was interrupted, the scope has closed and
\* the acquired browser's close was invoked by the release.
C3_Witness ==
  \E b \in Browsers :
    /\ Acquired(b)
    /\ scopeState = "closed"
    /\ scopeExit = "interrupt"
    /\ releaseCalls[b] = 1
    /\ closeCalls[b] = {"release"}

\* C7: closing the connectCDP handle only drops that connection.  A started
\* browser process is down exactly when close was invoked on its launched
\* handle (by the caller or by the scope's release); when only the CDP
\* handle was closed the launched handle is still connected, and opening a
\* page and evaluating in it through the launched handle succeeds.
C7_CdpCloseKeepsBrowser ==
  \A b \in Browsers :
    /\ lEngine[b] = "resolved" =>
         (procAlive[b] <=> closeCalls[b] \cap {"launched", "release"} = {})
    /\ closeCalls[b] = {"cdp"} =>
         /\ cdp[b] = "closed"
         /\ isConnected(b, "launched")
    /\ (probe.b = b /\ probe.via = "launched" /\ probe.closed = {"cdp"}) =>
         probe.exit = Success(OpValue)
    /\ (probe.b = b /\ probe.via = "cdp"
          /\ probe.closed \ {"releaseFailed"} # {}) =>
         probe.exit._tag = "Failure"

\* C7 witness: the CDP handle was closed, then a page was opened and
\* evaluated through the launched handle, whose process still runs.
C7_Witness ==
  \E b \in Browsers :
    /\ closeCalls[b] = {"cdp"}
    /\ cdp[b] = "closed"
    /\ procAlive[b]
    /\ probe.b = b /\ probe.via = "launched" /\ probe.closed = {"cdp"}
    /\ probe.exit._tag = "Success"

\* ------------------------------------------------------ claims: SpecTree
IsUnknownFailure(exit) ==
  /\ exit._tag = "Failure"
  /\ exit.error._tag = "PlaywrightError"
  /\ exit.error.reason = "Unknown"

C9_CloseCascades ==
  /\ \A g \in Pages : (pageCtx[g] # 0 /\ pageOpen[g]) => ctxOpen[pageCtx[g]]
  /\ \A c \in Contexts :
       ctxOpen[c] => isConnected(ctxOwner[c].b, ctxOwner[c].via)

\* C9 witness: a context that owned two pages was closed by context.close
\* (its browser still runs) and both pages are closed.
C9_Witness ==
  \E c \in Contexts :
    /\ ctxOwner[c] # NoOwner
    /\ ~ctxOpen[c]
    /\ isConnected(ctxOwner[c].b, ctxOwner[c].via)
    /\ Cardinality({ g \in Pages : pageCtx[g] = c }) >= 2
    /\ \A g \in Pages : pageCtx[g] = c => ~pageOpen[g]

\* ---------------------------------------------------- claims: SpecStream
\* the listeners run s has on the owner, among ls
ListenersOf(ls, s) == SelectSeq(ls, LAMBDA l : l.sub = s)

\* the owner has emitted close since run s registered
CloseSeen(s) == \E i \in (regAt[s] + 1)..Len(log) : log[i] = "close"

\* the occurrences of the event of run s, from the i-th emission up to the
\* owner's close (included when close is the event of s) and to upper
RECURSIVE HeardFrom(_, _, _)
HeardFrom(s, i, upper) ==
  IF i > upper THEN <<>>
  ELSE (IF log[i] = subEvent[s] THEN <<i>> ELSE <<>>)
       \o (IF log[i] = "close" THEN <<>> ELSE HeardFrom(s, i + 1, upper))

\* the occurrences emitted between the registration of run s and its
\* termination (the owner's close, or the stop of its consumer)
Heard(s) ==
  HeardFrom(s, regAt[s] + 1, IF subState[s] = "done" THEN stopAt[s] ELSE Len(log))

\* the occurrences run s delivered to its consumer
DeliveredOcc(s) == [i \in 1..Len(delivered[s]) |-> delivered[s][i].occ]

\* the occurrences run s holds between the listener and the consumer
RECURSIVE Queued(_)
Queued(q) == IF q = <<>> THEN <<>> ELSE Head(q).items \o Queued(Tail(q))

IsPrefix(a, b) == Len(a) <= Len(b) /\ SubSeq(b, 1, Len(a)) = a

\* C4: once the owner has emitted close during an active run, the run is
\* finished and the end of the stream is the last item its consumer will
\* take, the once-listener for close is gone, no occurrence fired after
\* that close is ever delivered, a run that has stopped delivers nothing
\* more, and when the run has ended none of its listeners is registered.
C4_CloseEndsStream ==
  /\ [](\A s \in Subs :
          (subState[s] = "active" /\ CloseSeen(s)) =>
            /\ finished[s]
            /\ queue[s] # <<>>
            /\ queue[s][Len(queue[s])].tag = "exit"
            /\ ENABLED Take(s)
            /\ \A i \in 1..Len(listeners) :
                 ~(listeners[i].sub = s /\ listeners[i].fn = "end"))
  /\ [](\A s \in Subs : \A i \in 1..Len(delivered[s]) :
          \A j \in (regAt[s] + 1)..(delivered[s][i].occ - 1) : log[j] # "close")
  /\ [](\A s \in Subs :
          subEnd[s] = "ended" =>
            /\ \E j \in (regAt[s] + 1)..stopAt[s] : log[j] = "close"
            /\ ListenersOf(listeners, s) = <<>>)
  /\ [][\A s \in Subs :
          subState[s] = "done" => delivered'[s] = delivered[s]]_vars

\* C4 witness: a run delivered an element, the owner closed, the emitter
\* fired the run's event again while its listener was still registered, and
\* the run ended with nothing more delivered and no listener left.
C4_Witness ==
  \E s \in Subs :
    /\ subEnd[s] = "ended"
    /\ subEvent[s] # "close"
    /\ Len(delivered[s]) >= 1
    /\ \E j \in (regAt[s] + 1)..stopAt[s] :
         /\ log[j] = "close"
         /\ \E k \in (j + 1)..stopAt[s] : log[k] = subEvent[s]
    /\ ListenersOf(listeners, s) = <<>>

\* C5: when an active run stops because its consumer finished early or was
\* interrupted, exactly the listeners that run had registered leave the
\* owner (at most two), and every other run's listeners stay as they were;
\* an active run always has its value listener registered, and its close
\* listener unless the owner has closed since.
C5_StopRemovesOwnListeners ==
  /\ [][\A s \in Subs :
          (subState[s] = "active" /\ subState'[s] = "done"
             /\ subEnd'[s] \in {"early", "interrupted"}) =>
            /\ ListenersOf(listeners', s) = <<>>
            /\ \A t \in Subs \ {s} :
                 ListenersOf(listeners', t) = ListenersOf(listeners, t)
            /\ Len(ListenersOf(listeners, s)) <= 2
            /\ Len(listeners') = Len(listeners) - Len(ListenersOf(listeners, s))]_vars
  /\ [](\A s \in Subs :
          subState[s] = "active" =>
            ListenersOf(listeners, s) =
              <<[event |-> subEvent[s], sub |-> s, fn |-> "single", isOnce |-> FALSE]>>
              \o (IF CloseSeen(s) THEN <<>>
                  ELSE <<[event |-> "close", sub |-> s, fn |-> "end", isOnce |-> TRUE]>>))

\* C5 witness: a run stopped early after its first element while another
\* run of the same event is active with both its listeners registered.
C5_Witness ==
  \E s \in Subs : \E t \in Subs \ {s} :
    /\ subEnd[s] = "early"
    /\ Len(delivered[s]) = 1
    /\ ListenersOf(listeners, s) = <<>>
    /\ subState[t] = "active"
    /\ subEvent[t] = subEvent[s]
    /\ Len(ListenersOf(listeners, t)) = 2

\* C6 as stated: a run that has terminated has delivered every occurrence
\* of its event that the owner emitted between its registration and its
\* termination.
C6_EveryOccurrenceDelivered ==
  \A s \in Subs : subState[s] = "done" => DeliveredOcc(s) = Heard(s)

\* C6 as amended: what a run has delivered is always a prefix of the
\* occurrences of its event emitted since its registration (emission order,
\* no duplicate, no gap), each element made by the event's mapping; while the
\* run is active the rest is held for it in order, none lost; a run that
\* ends by the owner's close has delivered all of them, whatever other runs
\* do.  A run that stops early or is interrupted keeps the prefix only.
C6_DeliversInOrder ==
  \A s \in Subs :
    /\ IsPrefix(DeliveredOcc(s), Heard(s))
    /\ \A i \in 1..Len(delivered[s]) :
         delivered[s][i].made = eventMappings(ownerKind, subEvent[s])
    /\ subState[s] = "active" =>
         DeliveredOcc(s) \o Queued(queue[s]) \o buffer[s] = Heard(s)
    /\ subEnd[s] = "ended" => DeliveredOcc(s) = Heard(s)

\* C6 witness: two runs of the same event ended by the owner's close, one
\* registered before two occurrences and one between them; each delivered
\* all it heard.
C6_Witness ==
  \E s \in Subs : \E t \in Subs \ {s} :
    /\ subEnd[s] = "ended" /\ subEnd[t] = "ended"
    /\ subEvent[s] = subEvent[t]
    /\ Len(delivered[s]) = 2
    /\ Len(delivered[t]) = 1
    /\ DeliveredOcc(s) = Heard(s)
    /\ DeliveredOcc(t) = Heard(t)

\* ------------------------------------------------------- claims: SpecUse
IsTimeoutInstance(c) == c.cls \in {"TimeoutError", "CustomTimeoutError"}

\* C1: a finished use(f) ran f on its capability object; when f's promise
\* resolved with v the exit is Success(v); when it rejected with r the exit
\* is a failure with the PlaywrightError whose reason is Timeout exactly for
\* an r that is an instance of the engine's TimeoutError (Unknown otherwise)
\* and whose cause is r itself.
C1_UseFailsWithWrappedCause ==
  \A o \in OpIds :
    useFiber[o] = "done" =>
      /\ useApi[o] \in Caps
      /\ useCb[o].settle = "resolve" => useExit[o] = Success(useCb[o].value)
      /\ useCb[o].settle = "reject" =>
           /\ useExit[o]._tag = "Failure"
           /\ useExit[o].error._tag = "PlaywrightError"
           /\ useExit[o].error.cause = useCb[o].value
           /\ useExit[o].error.reason =
                IF IsTimeoutInstance(useCb[o].value) THEN "Timeout" ELSE "Unknown"

\* the number of operations on capability c the engine has resolved
ResolvedOn(c) ==
  Cardinality({ o \in OpIds : useApi[o] = c /\ useEngine[o] = "resolved" })

\* C10: interrupting the awaiting fiber changes nothing on the engine side
\* (the operation stays in flight, no side effect is undone); an operation in
\* flight can always settle, whatever became of its fiber; and every resolved
\* operation has had its side effect on its capability object.
C10_InterruptDoesNotAbortEngine ==
  /\ [][\A o \in OpIds :
          (useFiber[o] = "awaiting" /\ useFiber'[o] = "interrupted") =>
            (useEngine' = useEngine /\ capEffects' = capEffects)]_vars
  /\ [](\A o \in OpIds : useEngine[o] = "pending" => ENABLED EngineSettle(o))
  /\ [](\A c \in Caps : capEffects[c] = ResolvedOn(c))

\* C10 witness: the fiber was interrupted, the engine operation resolved
\* afterwards and its side effect is on the capability.
C10_Witness ==
  \E o \in OpIds :
    /\ useFiber[o] = "interrupted"
    /\ useEngine[o] = "resolved"
    /\ capEffects[useApi[o]] >= 1

\* ------------------------------------------------------ claims: SpecWrap
\* C2: wrapError is total; every call returns a PlaywrightError whose reason
\* is Timeout exactly when the cause is an instance of the engine's
\* TimeoutError, Unknown otherwise, and whose cause is the argument itself.
C2_WrapErrorTotal ==
  \A i \in 1..Len(wrapLog) :
    LET c == wrapLog[i].input
        e == wrapLog[i].output
    IN /\ e._tag = "PlaywrightError"
       /\ e.reason \in {"Timeout", "Unknown"}
       /\ (e.reason = "Timeout") <=> IsTimeoutInstance(c)
       /\ e.cause = c

\* C2 witness: the log holds a timeout instance, a look-alike that only has
\* the name, and a wrapped exception.
C2_Witness ==
  /\ Len(wrapLog) = MaxWrapCalls
  /\ \E i \in 1..Len(wrapLog) : wrapLog[i].input.cls = "CustomTimeoutError"
  /\ \E i \in 1..Len(wrapLog) :
       wrapLog[i].input.cls = "Error" /\ wrapLog[i].input.name = "TimeoutError"

\* --------------------------------------------- claims: Spec (entry point)
\* C11: when the engine's launch rejects, launch and launchScoped fail with
\* a PlaywrightError whose cause is the rejection and whose reason is
\* Timeout if the rejection is the engine's timeout exception and Unknown
\* otherwise; no browser handle is returned and nothing is registered in
\* the scope.
C11_LaunchFailureClassified ==
  \A b \in Browsers :
    (lEngine[b] = "rejected" /\ lFiber[b] \notin {"awaiting", "interrupted"}) =>
      /\ lFiber[b] = "failed"
      /\ lExit[b]._tag = "Failure"
      /\ lExit[b].error._tag = "PlaywrightError"
      /\ lExit[b].error.cause = LaunchOutcome(lOpts[b]).value
      /\ lExit[b].error.reason =
           (IF InstanceOf(LaunchOutcome(lOpts[b]).value, "TimeoutError")
            THEN "Timeout" ELSE "Unknown")
      /\ lOpts[b] = "timeout1" => lExit[b].error.reason = "Timeout"
      /\ lOpts[b] = "invalidPath" => lExit[b].error.reason = "Unknown"
      /\ ~Held(b, "launched")
      /\ ~procAlive[b]
      /\ \A i \in 1..Len(finalizers) : finalizers[i].b # b

\* C11 witness: a launchScoped with a 1 ms timeout failed with reason
\* Timeout.
C11_Witness ==
  \E b \in Browsers :
    /\ lOpts[b] = "timeout1"
    /\ lScoped[b]
    /\ lFiber[b] = "failed"
    /\ lExit[b] = Fail(PlaywrightError("Timeout",
                         [cls |-> "TimeoutError", name |-> "TimeoutError"]))

\* ------------------------------------------------- claims: SpecTree (use)
\* C12 as stated: a dedicated asynchronous method and use(raw => raw.op())
\* give, for the same engine answer, the same success value or failures
\* with the same reason and cause.
C12_DedicatedEqualsUse ==
  (lastOp.target # 0 /\ lastOp.crossing) => lastOp.exit = lastOp.viaUse

\* C12 as amended: for the same engine answer both fail or both succeed; the
\* failures are the same PlaywrightError (reason and cause); the success
\* value of the dedicated method is the value use gives for every method
\* that passes the engine's result through, and for a method that converts
\* its result (goBack) the conversion of that value: none for null, some
\* wrapped Response otherwise.
C12_DedicatedMatchesUse ==
  (lastOp.target # 0 /\ lastOp.crossing) =>
    /\ lastOp.exit._tag = lastOp.viaUse._tag
    /\ lastOp.exit._tag \in {"Success", "Failure"}
    /\ lastOp.exit._tag = "Failure" => lastOp.exit = lastOp.viaUse
    /\ lastOp.exit._tag = "Success" =>
         IF lastOp.post = "none"
         THEN lastOp.exit.value = lastOp.viaUse.value
         ELSE lastOp.exit.value =
                (IF lastOp.viaUse.value = NullValue
                 THEN None
                 ELSE Some(PlaywrightResponseMake(lastOp.viaUse.value)))

\* C12 witness: page.title ran into its timeout on an open page; the
\* dedicated method and use failed alike.
C12_Witness ==
  /\ lastOp.target # 0
  /\ lastOp.op = "title"
  /\ ~lastOp.ownerClosed
  /\ lastOp.exit._tag = "Failure"
  /\ lastOp.exit = lastOp.viaUse

\* ------------------------------------------ claims: SpecStream (elements)
\* the event names whose raw payload is a Page
PageValued(events) == { name \in DOMAIN events : events[name] = "Page" }

C15_CallerManagedNotReleased ==
  \A b \in Browsers :
    /\ (lFiber[b] = "returned" /\ ~lScoped[b]) =>
         /\ releaseCalls[b] = 0
         /\ "release" \notin closeCalls[b]
         /\ \A i \in 1..Len(finalizers) : finalizers[i] # Owner(b, "launched")
         /\ procAlive[b] <=> "launched" \notin closeCalls[b]
    /\ (cdp[b] # "none" /\ ~cdpScoped[b]) =>
         /\ "releaseCdp" \notin closeCalls[b]
         /\ \A i \in 1..Len(finalizers) : finalizers[i] # Owner(b, "cdp")
         /\ cdp[b] = "connected" <=>
              closeCalls[b] \cap {"cdp", "launched", "release"} = {}

\* C15 witness: the scope has closed after an interruption; the browser that
\* launch returned still runs and the connectCDP connection to it is still
\* connected, no close having been invoked on either.
C15_Witness ==
  \E b \in Browsers :
    /\ scopeState = "closed"
    /\ scopeExit = "interrupt"
    /\ lFiber[b] = "returned" /\ ~lScoped[b]
    /\ cdp[b] = "connected" /\ ~cdpScoped[b]
    /\ procAlive[b]
    /\ closeCalls[b] = {}

\* ---------------------------------------------- claims: SpecTree (close)
\* C16: close run on a browser handle, a context or a page that is closed
\* already is not a defect (it completes, or fails with a PlaywrightError),
\* leaves the resource closed and changes the state of no browser process,
\* connection, context or page.
C16_CloseIdempotent ==
  [][(lastOp.op # "close" /\ lastOp'.op = "close") =>
       /\ lastOp'.exit._tag \in {"Success", "Failure"}
       /\ lastOp'.exit._tag = "Failure" =>
            lastOp'.exit.error._tag = "PlaywrightError"
       /\ UNCHANGED <<procAlive, cdp, ctxOwner, ctxOpen, pageCtx, pageOpen>>
       /\ lastOp'.handle = "page" => ~pageOpen'[lastOp'.target]
       /\ lastOp'.handle = "context" => ~ctxOpen'[lastOp'.target]
       /\ lastOp'.handle = "browser" =>
            \A c \in Contexts : ctxOwner[c].b = lastOp'.target /\ ctxOpen'[c] =>
              isConnected(ctxOwner[c].b, ctxOwner[c].via)']_vars

\* C16 witness: close was run again on a closed page whose context is open
\* and holds another open page.
C16_Witness ==
  /\ lastOp.op = "close"
  /\ lastOp.handle = "page"
  /\ lastOp.exit = Success(VoidValue)
  /\ ~pageOpen[lastOp.target]
  /\ ctxOpen[pageCtx[lastOp.target]]
  /\ \E g \in Pages : g # lastOp.target /\ pageOpen[g]

C18_CallsRunUnderCapturedRuntime ==
  /\ [][\A n \in Names :
          /\ (exposed[n] = NoReg /\ exposed'[n] # NoReg) =>
               exposed'[n].runtime = ambient
          /\ exposed[n] # NoReg => exposed'[n] = exposed[n]]_vars
  /\ [][callCount' = callCount + 1 =>
          LET c == lastCall'
              reg == exposed[c.name]
              inc == IF reg.kind = "function" THEN c.arg ELSE 1
          IN /\ reg # NoReg
             /\ c.ranUnder = reg.runtime
             /\ \A r \in Runtimes : r # reg.runtime => ref'[r] = ref[r]
             /\ c.hostExit._tag = "Success" =>
                  /\ ref'[reg.runtime] = ref[reg.runtime] + inc
                  /\ c.hostExit.value = ref'[reg.runtime]
                  /\ c.page = Resolve(c.hostExit.value)
             /\ c.hostExit._tag # "Success" => ref' = ref]_vars

\* C18 witness: a call made while the host program runs under another
\* context than the captured one has succeeded and the page has the value.
C18_Witness ==
  /\ callCount > 0
  /\ lastCall.ambient # lastCall.ranUnder
  /\ lastCall.hostExit._tag = "Success"
  /\ lastCall.page.settle = "resolve"
  /\ lastCall.page.value = ref[lastCall.ranUnder]

\* C19: a call to an exposed host function that arrives after the
\* resources behind the captured context's services are released fails
\* with a PlaywrightError of reason Unknown.
C19_LateCallFailsUnknown ==
  (callCount > 0 /\ ~lastCall.satisfiable) =>
     /\ lastCall.host._tag = "Failure"
     /\ lastCall.host.error._tag = "PlaywrightError"
     /\ lastCall.host.error.reason = "Unknown"

\* the inner locators of call c do not all belong to the frame the new
\* locator is scoped to
CrossFrame(c) ==
  \/ c.has # NoLocator /\ c.has # mainFrame(c.page)
  \/ c.hasNot # NoLocator /\ c.hasNot # mainFrame(c.page)

\* C20: page.locator with a has or hasNot locator of another frame gives no
\* locator: the call throws, which makes the effect it is made in die with
\* the engine's error, a defect that catchAll does not recover and that is
\* no PlaywrightError.
C20_CrossFrameLocatorIsDefect ==
  \A i \in 1..Len(locatorCalls) :
    LET c == locatorCalls[i]
    IN CrossFrame(c) =>
         /\ c.outcome.settle = "throw"
         /\ c.exit._tag = "Die"
         /\ c.exit.defect = SameFrameError
         /\ c.exit.defect # PlaywrightError("Unknown", SameFrameError)
         /\ c.exit.defect # PlaywrightError("Timeout", SameFrameError)

\* C20 witness: a locator was asked for with a has locator of another page
\* and the effect died, after one that was constructed.
C20_Witness ==
  \E i, j \in 1..Len(locatorCalls) :
    /\ i < j
    /\ ~CrossFrame(locatorCalls[i])
    /\ locatorCalls[i].has # NoLocator
    /\ locatorCalls[i].exit._tag = "Success"
    /\ locatorCalls[j].has # NoLocator
    /\ locatorCalls[j].has.page # locatorCalls[j].page
    /\ locatorCalls[j].exit._tag = "Die"

\* C30: when the callback of use (or the engine method it calls) throws
\* synchronously, the effect fails with a PlaywrightError, the same one a
\* promise rejected with the same cause gives, and is no defect; the engine
\* has no operation in flight for it.
C30_SyncThrowFailsTyped ==
  \A o \in OpIds :
    useCb[o].settle = "throw" =>
      /\ useFiber[o] = "done"
      /\ useEngine[o] = "idle"
      /\ useExit[o]._tag = "Failure"
      /\ useExit[o].error._tag = "PlaywrightError"
      /\ useExit[o].error.reason \in {"Timeout", "Unknown"}
      /\ useExit[o] = useHelper(Reject(useCb[o].value))

\* C30 witness: one use whose callback threw and one whose promise rejected
\* with the same cause have finished with the same failure.
C30_Witness ==
  \E o, q \in OpIds :
    /\ useCb[o].settle = "throw"
    /\ useCb[q].settle = "reject"
    /\ useCb[q].value = useCb[o].value
    /\ useFiber[q] = "done"
    /\ useExit[o]._tag = "Failure"
    /\ useExit[q] = useExit[o]

\* C25: an execution of use(f) calls f on the capability object exactly
\* once, whether the engine operation resolves or rejects; a rejection is
\* reported as the failure of the effect; and once the effect has finished
\* nothing is invoked again for it and its exit stays.
C25_NeverRetries ==
  /\ [](\A o \in OpIds :
          /\ useInvoked[o] = IF useFiber[o] = "idle" THEN 0 ELSE 1
          /\ (useFiber[o] = "done" /\ useCb[o].settle = "reject") =>
               /\ useEngine[o] = "rejected"
               /\ useExit[o]._tag = "Failure")
  /\ [][\A o \in OpIds :
          useFiber[o] = "done" =>
            /\ useFiber'[o] = "done"
            /\ useExit'[o] = useExit[o]
            /\ useEngine'[o] = useEngine[o]
            /\ useInvoked'[o] = useInvoked[o]]_vars

\* C25 witness: one execution has failed on a rejected engine operation,
\* another has succeeded, each after a single invocation.
C25_Witness ==
  \E o, q \in OpIds :
    /\ useFiber[o] = "done" /\ useEngine[o] = "rejected"
    /\ useExit[o]._tag = "Failure"
    /\ useFiber[q] = "done" /\ useEngine[q] = "resolved"
    /\ useExit[q]._tag = "Success"
    /\ useInvoked[o] = 1 /\ useInvoked[q] = 1

\* C26: a failing close in the release of launchScoped is swallowed: while
\* the scope closes the exit path of the scoped program stays what it was,
\* the closing scope can always go on (run its next finalizer or finish),
\* and the finalizer whose close failed is done with.
C26_ReleaseFailureSwallowed ==
  /\ [](scopeState \in {"closing", "closed"} =>
          scopeExit \in {"normal", "failure", "interrupt"})
  /\ [][(scopeState \in {"closing", "closed"}) => (scopeExit' = scopeExit)]_vars
  /\ [][(scopeState = "closing" /\ finalizers' # finalizers) =>
          (Len(finalizers') = Len(finalizers) - 1)]_vars
  /\ [](scopeState = "closing" => ENABLED RunFinalizer \/ ENABLED ScopeEndClose)

\* C26 witness: the release's close failed, the scope has closed all the
\* same and the scoped program's exit path is the normal one.
C26_Witness ==
  \E b \in Browsers :
    /\ Acquired(b)
    /\ "releaseFailed" \in closeCalls[b]
    /\ releaseCalls[b] = 1
    /\ scopeState = "closed"
    /\ scopeExit = "normal"

\* C27: launchScoped leaks no browser: once the scope has closed, no
\* browser process that a launchScoped started is running, unless the
\* release's close of it failed.
C27_ScopedLaunchNeverLeaks ==
  scopeState = "closed" =>
    \A b \in Browsers :
      (lScoped[b] /\ "releaseFailed" \notin closeCalls[b]) => ~procAlive[b]

\* the first close the owner emitted after run s registered (0: none yet)
FirstClose(s) ==
  LET after == { j \in (regAt[s] + 1)..Len(log) : log[j] = "close" }
  IN IF after = {} THEN 0 ELSE CHOOSE j \in after : \A k \in after : j <= k

\* C28: a run of eventStream("close") never delivers more than one
\* element; once the owner has closed, the close occurrence is delivered or
\* held for the run ahead of the end of the stream, not lost; the element
\* is the owner wrapped by the close mapping; and a run that reached the
\* end has delivered exactly that one element.
C28_CloseStreamDeliversOwner ==
  \A s \in Subs :
    subEvent[s] = "close" =>
      /\ Len(delivered[s]) <= 1
      /\ \A i \in 1..Len(delivered[s]) :
           /\ delivered[s][i].occ = FirstClose(s)
           /\ delivered[s][i].made = eventMappings(ownerKind, "close")
           /\ delivered[s][i].raw = Payload(ownerKind, "close", FirstClose(s))
           /\ delivered[s][i].raw.type =
                (IF ownerKind = "page" THEN "Page" ELSE "BrowserContext")
      /\ (subState[s] = "active" /\ FirstClose(s) # 0) =>
           /\ DeliveredOcc(s) \o Queued(queue[s]) \o buffer[s] = <<FirstClose(s)>>
           /\ finished[s]
           /\ queue[s][Len(queue[s])].tag = "exit"
      /\ subEnd[s] = "ended" => DeliveredOcc(s) = <<FirstClose(s)>>

\* C28 witness: a run of eventStream("close") on a context that first saw
\* another event, then the close, has delivered the wrapped context and
\* ended.
C28_Witness ==
  \E s \in Subs :
    /\ ownerKind = "context"
    /\ subEvent[s] = "close"
    /\ subEnd[s] = "ended"
    /\ Len(delivered[s]) = 1
    /\ delivered[s][1].made = "PlaywrightBrowserContext.make"
    /\ delivered[s][1].occ > regAt[s] + 1

\* ------------------------------------------------------ claims: SpecLazy
\* C29: a call of eventStream leaves the owner's listeners as they are;
\* every listener on the owner belongs to a run that is active; the start
\* of a run appends exactly a listener for its event and a once-listener
\* for close; and no run delivers (or makes an element of) an occurrence
\* emitted before it registered.
C29_ListenersOnlyWhenRun ==
  /\ [][(streams' # streams) =>
          (listeners' = listeners /\ subState' = subState)]_vars
  /\ [](\A i \in 1..Len(listeners) :
          /\ listeners[i].sub \in Subs
          /\ subState[listeners[i].sub] = "active")
  /\ [][\A s \in Subs :
          (subState[s] = "idle" /\ subState'[s] = "active") =>
            listeners' = listeners \o
              << [event |-> subEvent'[s], sub |-> s, fn |-> "single",
                  isOnce |-> FALSE],
                 [event |-> "close", sub |-> s, fn |-> "end",
                  isOnce |-> TRUE] >>]_vars
  /\ [](\A s \in Subs :
          /\ subState[s] # "idle" => subEvent[s] \in streams
          /\ \A i \in 1..Len(constructed[s]) : constructed[s][i].occ > regAt[s]
          /\ \A i \in 1..Len(delivered[s]) : delivered[s][i].occ > regAt[s])

\* C29 witness: the stream's event occurred after eventStream was called
\* and before a run registered; that run has delivered a later occurrence.
C29_Witness ==
  \E s \in Subs :
    /\ subState[s] # "idle"
    /\ subEvent[s] # "close"
    /\ \E j \in 1..regAt[s] : log[j] = subEvent[s]
    /\ Len(delivered[s]) >= 1

\* ---------------------------------------------- claims: SpecStream (C24)
\* the occurrences run s has made elements of
ConstructedOcc(s) == [i \in 1..Len(constructed[s]) |-> constructed[s][i].occ]

\* the runs that have made a handle of the n-th emission
MakersOf(n) ==
  { s \in Subs : \E i \in 1..Len(constructed[s]) :
                   /\ constructed[s][i].occ = n
                   /\ constructed[s][i].made # "identity" }

\* C24: no occurrence of an event has more than one handle constructed for
\* it, however many runs are subscribed to the event.
C24_OneHandlePerOccurrence ==
  \A n \in 1..Len(log) : Cardinality(MakersOf(n)) <= 1

\* C24 as amended: each run makes its own elements: one for each
\* occurrence it takes from its queue, in emission order and without
\* duplicate, made by the event's mapping from the payload of that one
\* occurrence of the run's event; what it delivered is a prefix of what it
\* made (all of it for a consumer that takes all).
C24_OneHandlePerOccurrencePerRun ==
  \A s \in Subs :
    /\ IsPrefix(ConstructedOcc(s), Heard(s))
    /\ IsPrefix(delivered[s], constructed[s])
    /\ subMode[s] = "all" => delivered[s] = constructed[s]
    /\ \A i \in 1..Len(constructed[s]) :
         LET h == constructed[s][i]
         IN /\ log[h.occ] = subEvent[s]
            /\ h.made = eventMappings(ownerKind, subEvent[s])
            /\ h.raw = Payload(ownerKind, subEvent[s], h.occ)
            /\ \A j \in 1..Len(constructed[s]) :
                 constructed[s][j].occ = h.occ => j = i

\* C24 witness: two runs of a page-valued event have each made a handle of
\* the same occurrence, and one of them has made handles of two
\* occurrences that reached it in one array.
C24_Witness ==
  \E n \in 1..Len(log), s \in Subs :
    /\ MakersOf(n) = Subs
    /\ constructed[s][1].made = "PlaywrightPage.make"
    /\ Len(constructed[s]) >= 2
    /\ delivered[s] = constructed[s]

\* what a call handed to its caller: the value returned or succeeded with,
\* taken out of its Option where the method returns one
Handed(c) ==
  IF "value" \notin DOMAIN c.result
  THEN {}
  ELSE IF "_tag" \in DOMAIN c.result.value
       THEN (IF c.result.value._tag = "Some" THEN { c.result.value.value } ELSE {})
       ELSE { c.result.value }
IsRaw(x) == "cls" \in DOMAIN x /\ x.cls = "Engine"
IsWrapped(x, raw) == "made" \in DOMAIN x /\ x.raw = raw

\* C22: no operation other than use hands a raw engine object to its caller:
\* when the engine answers an operation with an engine object, the caller
\* receives the wrapped handle of that object.
C22_OnlyUseHandsRaw ==
  \A i \in 1..Len(resultCalls) :
    LET c == resultCalls[i]
    IN  c.op.op # "use" =>
          /\ \A x \in Handed(c) : ~IsRaw(x)
          /\ (c.outcome.settle = "resolve" /\ IsRaw(c.outcome.value)) =>
               \E x \in Handed(c) : IsWrapped(x, c.outcome.value)

\* C23: an operation whose engine result is nullable yields None exactly when
\* the engine answers null, and Some(v) exactly when it answers a non-null v,
\* v wrapped when it is an engine object; the null is neither replaced by a
\* default nor turned into a failure.
NullableOps == { o \in ResultOps : o.nullable /\ o.op # "use" }
Yielded(c) == IF c.op.kind = "plain" THEN Return(c.result.value) ELSE Success(c.result.value)
C23_NullableIsOption ==
  \A i \in 1..Len(resultCalls) :
    LET c == resultCalls[i]
        v == c.outcome.value
    IN  (c.op \in NullableOps /\ c.outcome.settle = "resolve") =>
          /\ "value" \in DOMAIN c.result
          /\ c.result = Yielded(c)
          /\ (v = NullValue) <=> (c.result.value = None)
          /\ (v # NullValue) <=>
               (c.result.value =
                  Some(IF IsRaw(v) THEN WrapperMake(c.op.make, v) ELSE v))

C23_Witness ==
  \E i, j \in 1..Len(resultCalls) :
    /\ resultCalls[i].op.op = "headerValue"
    /\ resultCalls[i].outcome = Resolve(EmptyString)
    /\ resultCalls[i].result = Success(Some(EmptyString))
    /\ resultCalls[j].op.op = "goForward"
    /\ resultCalls[j].outcome = Resolve(NullValue)
    /\ resultCalls[j].result = Success(None)

\* C21: constructing a locator does no work (no selector is resolved, no
\* document is touched) and an operation on a locator acts on the node the
\* document has when the operation runs, leaving nothing behind in the
\* locator: two operations on one locator with the node changed in between
\* each act on the node current at their own call.
C21_LocatorResolvesAtCall ==
  [][/\ (locatorCalls' # locatorCalls) =>
          (domQueries' = domQueries /\ locOps' = locOps /\ dom' = dom)
     /\ (locOps' # locOps) =>
          (LET c == locOps'[Len(locOps')]
           IN  /\ c.node = dom[locatorCalls[c.loc].page]
               /\ locatorCalls' = locatorCalls
               /\ domQueries' = domQueries + 1
               /\ (c.node # NoNode) => (c.exit = Success(NodeValue(c.node))))]_vars

C21_Witness ==
  \E j, k \in 1..Len(locOps) :
    /\ j < k
    /\ locOps[j].loc = locOps[k].loc
    /\ locOps[j].exit = Success(NodeValue("n1"))
    /\ locOps[k].exit = Success(NodeValue("n2"))
    /\ dom[locatorCalls[locOps[k].loc].page] = "n2"

====
